---- MODULE Spec2Model ----
(***************************************************************************)
(* NFL playoff simulator.                                                  *)
(*                                                                         *)
(* Spec: the tiebreaker resolution engine (src/simulation/tieBreakers.ts)  *)
(* as a state machine.  sortTeams is run one loop iteration / one          *)
(* tiebreaker step per action on inputs drawn from bounded sets.           *)
(*                                                                         *)
(* SimSpec: the Monte Carlo driver runSimulation                           *)
(* (src/simulation/monteCarlo.ts) with computeScheduleStrength             *)
(* (src/simulation/scheduleStrength.ts): validation, then per trial the    *)
(* cloning of the per-trial state, one action per simulated game, the      *)
(* schedule strength, the playoff seeding, and at the end the returned     *)
(* probabilities.                                                          *)
(*                                                                         *)
(* Numbers that are floating point ratios in the code are kept as exact    *)
(* rationals <<numerator, denominator>> (denominator > 0); the code's      *)
(* "Math.abs(a - b) < EPSILON" is evaluated on them exactly.               *)
(* Probabilities of the game model are kept in ten-thousandths and         *)
(* ratings in fractions of a rating point (see ProbScale, EloUnit).        *)
(***************************************************************************)
EXTENDS Integers, Sequences, FiniteSets, TLC

VARIABLES
    teams,        \* sortTeams argument: the list of teams (ids)
    division,     \* Team.division of every team
    statsMap,     \* TeamStatsMap: team id -> SeasonStats
    allGames,     \* the schedule: sequence of Game records
    gameResults,  \* Map<gameId, winnerId | 'TIE'> (absent key = not played)
    type,         \* 'division' | 'wildcard'
    pc,           \* position in sortTeams / resolveTiedGroup / findTiebreakerWinner
    byWinPct,     \* sortTeams: teams sorted by win percentage
    i,            \* sortTeams: index of the current group (1-based)
    j,            \* sortTeams: index after the current tied group
    result,       \* sortTeams: the output list
    remaining,    \* resolveTiedGroup: teams not ranked yet
    ranked,       \* resolveTiedGroup: teams ranked so far
    stack,        \* activation records of findTiebreakerWinner (innermost last)
    lastStep,     \* history: the step function applied last, with its result
    touched,      \* history: teams that were handed to findTiebreakerWinner
    extractions,  \* history: calls of findTiebreakerWinner for the current group
    draws,        \* history: the values Math.random gave to applyCoinToss, in order
    \* runSimulation (statsMap, allGames, gameResults above are its own
    \* objects of these names; division is Team.division of initialTeams)
    initialTeams,    \* argument: the standings, a list of Team records
    numSimulations,  \* argument: the number of trials
    oddsMap,         \* argument: gameId -> market home win probability
    kalshiEloMap,    \* argument: teamId -> seed rating
    userPicks,       \* argument: gameId -> forced winnerId | 'TIE'
    simPc,           \* position in runSimulation
    sim,             \* the trial loop counter
    simElo,          \* per trial: the ratings
    simWinsAgainst,  \* per trial: teamId -> defeated opponents, one per win
    giPos,           \* per trial: position in the week-ordered game list
    madePlayoffs,    \* result counter per team
    wonDivision,     \* result counter per team
    madeWildcard,    \* result counter per team
    wonFirstSeed,    \* result counter per team
    gameHomeWins,    \* result counter per remaining game
    returned,        \* how the call ended: nothing yet, a throw, or the return value
    randomCalls,     \* history: calls of Math.random made by the game loop
    resolvedGames,   \* history: the games resolved in the current trial, in order
    lastGame,        \* history: the game resolved last in the current trial
    lastSeeding,     \* history: processConference results of the trial completed last
    \* kalshiHttp: the shared SimpleRateLimiter and the kalshiGet calls
    queue,           \* SimpleRateLimiter.queue: the jobs not started yet (call ids)
    active,          \* SimpleRateLimiter.active
    lastStart,       \* SimpleRateLimiter.lastStart
    now,             \* Date.now()
    calls,           \* the kalshiGet calls made so far, each with its position
    \* simulation/worker.ts and the App that owns the worker
    workerPc,        \* position in self.onmessage
    message,         \* e.data of the message being handled
    round,           \* CALIBRATE: the loop counter i
    received,        \* history: messages delivered to onmessage
    posted,          \* history: the messages posted by self.postMessage, in order
    terminated       \* App: workerRef.current.terminate() has been called

vars == <<teams, division, statsMap, allGames, gameResults, type, pc, byWinPct,
          i, j, result, remaining, ranked, stack, lastStep, touched, extractions,
          draws,
          initialTeams, numSimulations, oddsMap, kalshiEloMap, userPicks, simPc,
          sim, simElo, simWinsAgainst, giPos, madePlayoffs, wonDivision,
          madeWildcard, wonFirstSeed, gameHomeWins, returned, randomCalls,
          resolvedGames, lastGame, lastSeeding,
          queue, active, lastStart, now, calls,
          workerPc, message, round, received, posted, terminated>>

\* the state of the request limiter and of the kalshiGet calls
kalshiVars == <<queue, active, lastStart, now, calls>>

\* the state of the worker
workerVars == <<workerPc, message, round, received, posted, terminated>>

inputs == <<teams, division, statsMap, allGames, gameResults, type>>

\* the state of runSimulation that sortTeams does not see
simVars == <<initialTeams, numSimulations, oddsMap, kalshiEloMap, userPicks, simPc,
             sim, simElo, simWinsAgainst, giPos, madePlayoffs, wonDivision,
             madeWildcard, wonFirstSeed, gameHomeWins, returned, randomCalls,
             resolvedGames, lastGame, lastSeeding>>

\* the state of one sortTeams call run step by step
sortVars == <<teams, type, pc, byWinPct, i, j, result, remaining, ranked, stack,
              lastStep, touched, extractions, draws>>

----------------------------------------------------------------------------
(* Program constants *)

\* const EPSILON = 1e-9, kept as its inverse
EPSILON_INV == 1000000000

\* const MAX_ITERATIONS = 50
MAX_ITERATIONS == 50

\* if (commonGamesPlayed < 4)
MIN_COMMON_GAMES == 4

TIE == "TIE"

----------------------------------------------------------------------------
(* Exact rationals *)

Abs(x) == IF x < 0 THEN -x ELSE x

\* (wins + 0.5 * ties) / total, 0 when total is 0
Ratio(wins, losses, ties) ==
    LET total == wins + losses + ties
    IN  IF total = 0 THEN <<0, 1>> ELSE <<2 * wins + ties, 2 * total>>

RLess(a, b) == a[1] * b[2] < b[1] * a[2]

RLeq(a, b) == a[1] * b[2] <= b[1] * a[2]

REq(a, b) == a[1] * b[2] = b[1] * a[2]

\* Math.abs(a - b) < EPSILON:  |a1 b2 - b1 a2| * 10^9 < a2 b2
NearEq(a, b) ==
    Abs(a[1] * b[2] - b[1] * a[2]) <= ((a[2] * b[2]) - 1) \div EPSILON_INV

\* Math.max(...vals) for a non-empty sequence of rationals
MaxOf(vals) ==
    vals[CHOOSE k \in 1..Len(vals) : \A m \in 1..Len(vals) : RLeq(vals[m], vals[k])]

----------------------------------------------------------------------------
(* Sequence helpers *)

Range(s) == {s[k] : k \in 1..Len(s)}

----------------------------------------------------------------------------
(* Stat helpers *)

getWinPct(stats) == Ratio(stats.wins, stats.losses, stats.ties)

getDivPct(stats) == Ratio(stats.divWins, stats.divLosses, stats.divTies)

getConfPct(stats) == Ratio(stats.confWins, stats.confLosses, stats.confTies)

\* gameResults.get(g.id); "" stands for undefined
ResultOf(g) == IF g.id \in DOMAIN gameResults THEN gameResults[g.id] ELSE ""

\* g.homeTeamId === teamId ? g.awayTeamId : g.homeTeamId
OppOf(g, teamId) == IF g.homeTeamId = teamId THEN g.awayTeamId ELSE g.homeTeamId

\* monteCarlo: teamGamesMap, built from allGames
teamGamesMap(teamId) ==
    SelectSeq(allGames, LAMBDA g : g.homeTeamId = teamId \/ g.awayTeamId = teamId)

\* monteCarlo: scheduleMap (the opponentsMap argument), one entry per game
opponentsMap(teamId) ==
    LET gs == teamGamesMap(teamId)
    IN  [k \in 1..Len(gs) |-> OppOf(gs[k], teamId)]

getH2HRecord(teamId, opponentIds) ==
    LET gs == teamGamesMap(teamId)
        Played(g) == OppOf(g, teamId) \in opponentIds /\ ResultOf(g) # ""
        played == {k \in 1..Len(gs) : Played(gs[k])}
    IN  [wins   |-> Cardinality({k \in played : ResultOf(gs[k]) # TIE /\ ResultOf(gs[k]) = teamId}),
         losses |-> Cardinality({k \in played : ResultOf(gs[k]) # TIE /\ ResultOf(gs[k]) # teamId}),
         ties   |-> Cardinality({k \in played : ResultOf(gs[k]) = TIE}),
         opponentsPlayed |-> {OppOf(gs[k], teamId) : k \in played}]

getH2HPct(record) == Ratio(record.wins, record.losses, record.ties)

\* the intersection loop of getCommonGamesRecord
CommonOpponents(groupIds) ==
    {o \in Range(opponentsMap(groupIds[1])) \ Range(groupIds) :
        \A k \in 1..Len(groupIds) : o \in Range(opponentsMap(groupIds[k]))}

\* mutant: four common opponents are required instead of four common games
getCommonGamesRecord_FourOpponents(teamId, groupIds) ==
    LET commonOpponents == CommonOpponents(groupIds)
        gs == teamGamesMap(teamId)
        Played(g) == OppOf(g, teamId) \in commonOpponents /\ ResultOf(g) # ""
        played == {k \in 1..Len(gs) : Played(gs[k])}
    IN  IF Cardinality(commonOpponents) < MIN_COMMON_GAMES
        THEN [wins |-> 0, losses |-> 0, ties |-> 0, valid |-> FALSE]
        ELSE [wins   |-> Cardinality({k \in played : ResultOf(gs[k]) # TIE /\ ResultOf(gs[k]) = teamId}),
              losses |-> Cardinality({k \in played : ResultOf(gs[k]) # TIE /\ ResultOf(gs[k]) # teamId}),
              ties   |-> Cardinality({k \in played : ResultOf(gs[k]) = TIE}),
              valid  |-> TRUE]

getCommonGamesRecord(teamId, groupIds) ==
    LET commonOpponents == CommonOpponents(groupIds)
        gs == teamGamesMap(teamId)
        Played(g) == OppOf(g, teamId) \in commonOpponents /\ ResultOf(g) # ""
        played == {k \in 1..Len(gs) : Played(gs[k])}
        commonGamesPlayed == Cardinality(played)
        invalid == [wins |-> 0, losses |-> 0, ties |-> 0, valid |-> FALSE]
    IN  IF commonOpponents = {} THEN invalid
        ELSE IF commonGamesPlayed < MIN_COMMON_GAMES THEN invalid
        ELSE [wins   |-> Cardinality({k \in played : ResultOf(gs[k]) # TIE /\ ResultOf(gs[k]) = teamId}),
              losses |-> Cardinality({k \in played : ResultOf(gs[k]) # TIE /\ ResultOf(gs[k]) # teamId}),
              ties   |-> Cardinality({k \in played : ResultOf(gs[k]) = TIE}),
              valid  |-> TRUE]

----------------------------------------------------------------------------
(* Tiebreaker step definitions.  A pool is a sequence of team ids; the     *)
(* result is the code's TiebreakerResult {survivors, eliminated}.          *)

Unchanged(pool) == [survivors |-> pool, eliminated |-> FALSE]

\* mutant: a pool of three or more is ranked by head-to-head percentage
applyMultiTeamSweepH2H_ByPct(pool) ==
    LET maxVal == MaxOf([k \in 1..Len(pool) |->
                            getH2HPct(getH2HRecord(pool[k], Range(pool)))])
        best == SelectSeq(pool, LAMBDA t :
                    NearEq(getH2HPct(getH2HRecord(t, Range(pool))), maxVal))
    IN  [survivors |-> best, eliminated |-> Len(best) < Len(pool)]

applyMultiTeamSweepH2H(pool) ==
    LET ids == Range(pool)
        rec(t) == getH2HRecord(t, ids)
        otherTeamCount == Len(pool) - 1
        sweepers == SelectSeq(pool, LAMBDA t :
                        /\ Cardinality(rec(t).opponentsPlayed) = otherTeamCount
                        /\ rec(t).losses = 0
                        /\ rec(t).ties = 0
                        /\ rec(t).wins > 0)
        swept == SelectSeq(pool, LAMBDA t :
                        /\ Cardinality(rec(t).opponentsPlayed) = otherTeamCount
                        /\ rec(t).wins = 0
                        /\ rec(t).ties = 0
                        /\ rec(t).losses > 0)
    IN  IF Len(pool) <= 2 THEN Unchanged(pool)
        ELSE IF Len(sweepers) = 1
             THEN [survivors |-> <<sweepers[1]>>, eliminated |-> TRUE]
        ELSE IF Len(swept) > 0 /\ Len(swept) < Len(pool)
             THEN [survivors |-> SelectSeq(pool, LAMBDA t : t \notin Range(swept)),
                   eliminated |-> TRUE]
        ELSE Unchanged(pool)

\* the shared tail of the steps: keep the teams within EPSILON of the maximum
BestOf(pool, val) ==
    LET maxVal == MaxOf([k \in 1..Len(pool) |-> val[pool[k]]])
        best == SelectSeq(pool, LAMBDA t : NearEq(val[t], maxVal))
    IN  [survivors |-> best, eliminated |-> Len(best) < Len(pool)]

applyBestMetric(pool, getValue) ==
    IF Len(pool) <= 1 THEN Unchanged(pool) ELSE BestOf(pool, getValue)

applyDivisionH2H(pool) ==
    IF Len(pool) <= 1 THEN Unchanged(pool)
    ELSE IF Len(pool) >= 3 THEN applyMultiTeamSweepH2H(pool)
    ELSE BestOf(pool, [t \in Range(pool) |-> getH2HPct(getH2HRecord(t, Range(pool)))])

applyWildcardH2H(pool) ==
    IF Len(pool) <= 1 THEN Unchanged(pool)
    ELSE IF Len(pool) >= 3 THEN applyMultiTeamSweepH2H(pool)
    ELSE BestOf(pool, [t \in Range(pool) |-> getH2HPct(getH2HRecord(t, Range(pool)))])

\* pct of a valid common-games record (an invalid one is -1 in the code)
CommonPct(t, pool) ==
    LET record == getCommonGamesRecord(t, pool)
    IN  IF record.valid THEN Ratio(record.wins, record.losses, record.ties)
        ELSE <<-1, 1>>

applyCommonGames(pool) ==
    IF Len(pool) <= 1 THEN Unchanged(pool)
    ELSE IF \E k \in 1..Len(pool) : ~getCommonGamesRecord(pool[k], pool).valid
         THEN Unchanged(pool)
    ELSE BestOf(pool, [t \in Range(pool) |-> CommonPct(t, pool)])

\* mutant: the wildcard list is used for both types
buildTiebreakerSteps_WildcardList(ty) == <<"h2h", "conf", "common", "sov", "sos">>

\* mutant: the division list is used for both types
buildTiebreakerSteps_DivisionList(ty) ==
    <<"h2h", "div", "common", "conf", "sov", "sos">>

\* buildTiebreakerSteps: the step list of each type, by name
buildTiebreakerSteps(ty) ==
    IF ty = "division"
    THEN <<"h2h", "div", "common", "conf", "sov", "sos">>
    ELSE <<"h2h", "conf", "common", "sov", "sos">>

\* steps[stepIdx](pool)   (stepIdx is 0-based as in the code)
RunStep(ty, stepIdx, pool) ==
    LET name == buildTiebreakerSteps(ty)[stepIdx + 1]
    IN  CASE name = "h2h"    -> IF ty = "division" THEN applyDivisionH2H(pool)
                                ELSE applyWildcardH2H(pool)
          [] name = "div"    -> applyBestMetric(pool, [t \in Range(pool) |-> getDivPct(statsMap[t])])
          [] name = "common" -> applyCommonGames(pool)
          [] name = "conf"   -> applyBestMetric(pool, [t \in Range(pool) |-> getConfPct(statsMap[t])])
          [] name = "sov"    -> applyBestMetric(pool, [t \in Range(pool) |-> statsMap[t].sov])
          [] name = "sos"    -> applyBestMetric(pool, [t \in Range(pool) |-> statsMap[t].sos])

\* mutant: no restart, the step after the one that fired comes next
NextStepIdx_NoRestart(stepIdx, eliminated) == stepIdx + 1

\* findTiebreakerWinner: the step index after a step ran
NextStepIdx(stepIdx, eliminated) == IF eliminated THEN 0 ELSE stepIdx + 1

LoopRuns_NoCap(f) ==
    f.stepIdx < Len(buildTiebreakerSteps(f.type))

\* findTiebreakerWinner: the loop condition
LoopRuns(f) ==
    f.stepIdx < Len(buildTiebreakerSteps(f.type)) /\ f.iterations < MAX_ITERATIONS

----------------------------------------------------------------------------
(* sortTeams helpers *)

\* mutant: the list is not sorted
SortByWinPct_InputOrder(s) == s

\* [...teams].sort((a, b) => pct(b) - pct(a)): stable, descending
RECURSIVE SortByWinPct(_)
SortByWinPct(s) ==
    IF s = <<>> THEN <<>>
    ELSE LET pct(t) == getWinPct(statsMap[t])
             first == CHOOSE k \in 1..Len(s) :
                        /\ \A m \in 1..Len(s) : RLeq(pct(s[m]), pct(s[k]))
                        /\ \A m \in 1..(k - 1) : RLess(pct(s[m]), pct(s[k]))
             rest == [m \in 1..(Len(s) - 1) |-> IF m < first THEN s[m] ELSE s[m + 1]]
         IN  <<s[first]>> \o SortByWinPct(rest)

\* the inner while loop of sortTeams: the first index after position from
\* whose win percentage is not within EPSILON of the one at position from
RECURSIVE GroupEnd(_, _)
GroupEnd(from, k) ==
    IF k <= Len(byWinPct)
       /\ NearEq(getWinPct(statsMap[byWinPct[k]]), getWinPct(statsMap[byWinPct[from]]))
    THEN GroupEnd(from, k + 1)
    ELSE k

\* mutant: the group's last team is not taken into the group
TiedGroup_DropLast(from) ==
    SubSeq(byWinPct, from,
           IF GroupEnd(from, from + 1) - from >= 2
           THEN GroupEnd(from, from + 1) - 2 ELSE from)

\* sortTeams: tiedGroup, the teams from position from up to the group's end
TiedGroup(from) == SubSeq(byWinPct, from, GroupEnd(from, from + 1) - 1)

\* mutant: the team listed first is removed, whoever won
RemoveWinners_First(rem, winner) == Tail(rem)

\* mutant: the winners stay in the remaining pool
RemoveWinners_Keep(rem, winner) == rem

\* resolveTiedGroup: remaining.filter(t => !winnerIds.has(t.id))
RemoveWinners(rem, winner) == SelectSeq(rem, LAMBDA t : t \notin Range(winner))

\* mutant: no pre-step, every candidate enters the wildcard steps
ByDiv_EveryTeam(pool) == [k \in 1..Len(pool) |-> <<pool[k]>>]

\* findTiebreakerWinner, wildcard pre-step: byDiv in Map insertion order
RECURSIVE ByDiv(_)
ByDiv(pool) ==
    IF pool = <<>> THEN <<>>
    ELSE LET div == division[pool[1]]
         IN  <<SelectSeq(pool, LAMBDA t : division[t] = div)>>
             \o ByDiv(SelectSeq(pool, LAMBDA t : division[t] # div))

\* the activation record of a call findTiebreakerWinner(candidates, ty)
NewFrame(candidates, ty) ==
    [type       |-> ty,
     phase      |-> IF ty = "wildcard" THEN "pre" ELSE "check",
     groups     |-> IF ty = "wildcard" THEN ByDiv(candidates) ELSE <<>>,
     filtered   |-> <<>>,
     pool       |-> candidates,
     stepIdx    |-> 0,
     iterations |-> 0]

----------------------------------------------------------------------------
(* The state machine: sortTeams -> resolveTiedGroup -> findTiebreakerWinner *)

top == stack[Len(stack)]

SetTop(f) == [stack EXCEPT ![Len(stack)] = f]

NoStep == [kind |-> "none", type |-> "", stepIdx |-> 0, pool |-> <<>>,
           survivors |-> <<>>, eliminated |-> FALSE, depth |-> 0]

\* mutant: the first team of the pool always wins the toss
applyCoinToss_First(pool, rnd) ==
    IF Len(pool) <= 1 THEN Unchanged(pool)
    ELSE [survivors |-> <<pool[1]>>, eliminated |-> TRUE]

\* mutant: the toss also depends on state other than its random value
applyCoinToss_HiddenState(pool, rnd) ==
    IF Len(pool) <= 1 THEN Unchanged(pool)
    ELSE [survivors |-> <<pool[((rnd + extractions) % Len(pool)) + 1]>>,
          eliminated |-> TRUE]

\* applyCoinToss; rnd is Math.floor(Math.random() * pool.length)
applyCoinToss(pool, rnd) ==
    IF Len(pool) <= 1 THEN Unchanged(pool)
    ELSE [survivors |-> <<pool[rnd + 1]>>, eliminated |-> TRUE]

\* "return winner" of findTiebreakerWinner: to the wildcard pre-step that
\* called it (filtered.push(best[0])) or to resolveTiedGroup
\* (ranked.push(...winner); remaining = remaining.filter(...))
Return(winner) ==
    IF Len(stack) > 1
    THEN LET caller == stack[Len(stack) - 1]
         IN  /\ stack' = [SubSeq(stack, 1, Len(stack) - 1) EXCEPT ![Len(stack) - 1] =
                            [caller EXCEPT !.filtered = Append(@, winner[1]),
                                           !.groups = Tail(@)]]
             /\ UNCHANGED <<pc, ranked, remaining>>
    ELSE /\ stack' = <<>>
         /\ ranked' = ranked \o winner
         /\ remaining' = RemoveWinners(remaining, winner)
         /\ pc' = "resolve"

\* const byWinPct = [...teams].sort(...); result = []; i = 0
SortStart ==
    /\ pc = "start"
    /\ byWinPct' = SortByWinPct(teams)
    /\ i' = 1
    /\ j' = 1
    /\ result' = <<>>
    /\ pc' = "loop"
    /\ UNCHANGED <<kalshiVars, workerVars, simVars, inputs, draws, remaining, ranked, stack, lastStep, touched, extractions>>

\* while (i < byWinPct.length) is over: return result
Finish ==
    /\ pc = "loop"
    /\ i > Len(byWinPct)
    /\ pc' = "done"
    /\ UNCHANGED <<kalshiVars, workerVars, simVars, inputs, draws, byWinPct, i, j, result, remaining, ranked, stack,
                   lastStep, touched, extractions>>

\* tiedGroup.length === 1: result.push(tiedGroup[0]); i = j
Single ==
    /\ pc = "loop"
    /\ i <= Len(byWinPct)
    /\ Len(TiedGroup(i)) = 1
    /\ result' = Append(result, TiedGroup(i)[1])
    /\ j' = i + 1
    /\ i' = i + 1
    /\ UNCHANGED <<kalshiVars, workerVars, simVars, inputs, draws, pc, byWinPct, remaining, ranked, stack, lastStep, touched, extractions>>

\* tiedGroup.length > 1: resolveTiedGroup(tiedGroup, ...) is entered
BeginResolve ==
    /\ pc = "loop"
    /\ i <= Len(byWinPct)
    /\ Len(TiedGroup(i)) # 1
    /\ j' = GroupEnd(i, i + 1)
    /\ remaining' = TiedGroup(i)
    /\ ranked' = <<>>
    /\ extractions' = 0
    /\ pc' = "resolve"
    /\ UNCHANGED <<kalshiVars, workerVars, simVars, inputs, draws, byWinPct, i, result, stack, lastStep, touched>>

\* resolveTiedGroup: remaining.length > 1, findTiebreakerWinner is called
ResolveCall ==
    /\ pc = "resolve"
    /\ Len(remaining) > 1
    /\ stack' = <<NewFrame(remaining, type)>>
    /\ touched' = touched \cup Range(remaining)
    /\ extractions' = extractions + 1
    /\ pc' = "find"
    /\ UNCHANGED <<kalshiVars, workerVars, simVars, inputs, draws, byWinPct, i, j, result, remaining, ranked, lastStep>>

\* resolveTiedGroup: the last team is pushed (or nothing remains), ranked is
\* returned and sortTeams does result.push(...resolved); i = j
ResolveReturn ==
    /\ pc = "resolve"
    /\ Len(remaining) <= 1
    /\ result' = result \o ranked \o remaining
    /\ ranked' = <<>>
    /\ remaining' = <<>>
    /\ i' = j
    /\ pc' = "loop"
    /\ UNCHANGED <<kalshiVars, workerVars, simVars, inputs, draws, byWinPct, j, stack, lastStep, touched, extractions>>

\* wildcard pre-step, a division with one candidate: filtered.push(divTeams[0])
PreStepSingle ==
    /\ pc = "find"
    /\ top.phase = "pre"
    /\ top.groups # <<>>
    /\ Len(top.groups[1]) = 1
    /\ stack' = SetTop([top EXCEPT !.filtered = Append(@, top.groups[1][1]),
                                   !.groups = Tail(@)])
    /\ UNCHANGED <<kalshiVars, workerVars, simVars, inputs, draws, pc, byWinPct, i, j, result, remaining, ranked,
                   lastStep, touched, extractions>>

\* wildcard pre-step, a division with several candidates:
\* findTiebreakerWinner(divTeams, ..., 'division', ...) is called
PreStepRecurse ==
    /\ pc = "find"
    /\ top.phase = "pre"
    /\ top.groups # <<>>
    /\ Len(top.groups[1]) > 1
    /\ stack' = Append(stack, NewFrame(top.groups[1], "division"))
    /\ UNCHANGED <<kalshiVars, workerVars, simVars, inputs, draws, pc, byWinPct, i, j, result, remaining, ranked,
                   lastStep, touched, extractions>>

\* wildcard pre-step is over: pool = filtered
PreStepDone ==
    /\ pc = "find"
    /\ top.phase = "pre"
    /\ top.groups = <<>>
    /\ stack' = SetTop([top EXCEPT !.pool = top.filtered, !.phase = "check"])
    /\ UNCHANGED <<kalshiVars, workerVars, simVars, inputs, draws, pc, byWinPct, i, j, result, remaining, ranked,
                   lastStep, touched, extractions>>

\* if (pool.length === 1) return pool; otherwise the step list is built
CheckPool ==
    /\ pc = "find"
    /\ top.phase = "check"
    /\ IF Len(top.pool) = 1
       THEN Return(top.pool)
       ELSE /\ stack' = SetTop([top EXCEPT !.phase = "steps"])
            /\ UNCHANGED <<pc, ranked, remaining>>
    /\ UNCHANGED <<kalshiVars, workerVars, simVars, inputs, draws, byWinPct, i, j, result, lastStep, touched, extractions>>

\* one iteration of the while loop of findTiebreakerWinner
ApplyStep ==
    /\ pc = "find"
    /\ top.phase = "steps"
    /\ LoopRuns(top)
    /\ LET after(r) ==
               /\ lastStep' = [kind |-> "step", type |-> top.type, stepIdx |-> top.stepIdx,
                               pool |-> top.pool, survivors |-> r.survivors,
                               eliminated |-> r.eliminated, depth |-> Len(stack)]
               /\ IF r.eliminated /\ Len(r.survivors) = 1
                  THEN Return(r.survivors)
                  ELSE /\ stack' = SetTop([top EXCEPT
                                !.iterations = @ + 1,
                                !.pool = IF r.eliminated THEN r.survivors ELSE @,
                                !.stepIdx = NextStepIdx(@, r.eliminated)])
                       /\ UNCHANGED <<pc, ranked, remaining>>
       IN  after(RunStep(top.type, top.stepIdx, top.pool))
    /\ UNCHANGED <<kalshiVars, workerVars, simVars, inputs, draws, byWinPct, i, j, result, touched, extractions>>

\* the loop is over: return applyCoinToss(pool).survivors
CoinToss ==
    /\ pc = "find"
    /\ top.phase = "steps"
    /\ ~LoopRuns(top)
    /\ \E rnd \in 0..(Len(top.pool) - 1) :
         LET r == applyCoinToss(top.pool, rnd)
         IN  /\ lastStep' = [kind |-> "coin", type |-> top.type, stepIdx |-> top.stepIdx,
                             pool |-> top.pool, survivors |-> r.survivors,
                             eliminated |-> r.eliminated, depth |-> Len(stack)]
             /\ draws' = Append(draws, rnd)
             /\ Return(r.survivors)
    /\ UNCHANGED <<kalshiVars, workerVars, simVars, inputs, byWinPct, i, j, result, touched, extractions>>

Next ==
    \/ SortStart
    \/ Finish
    \/ Single
    \/ BeginResolve
    \/ ResolveCall
    \/ ResolveReturn
    \/ PreStepSingle
    \/ PreStepRecurse
    \/ PreStepDone
    \/ CheckPool
    \/ ApplyStep
    \/ CoinToss

----------------------------------------------------------------------------
(* sortTeams as a function of its arguments and of the values Math.random  *)
(* returns, in the order applyCoinToss asks for them.  A call returns the  *)
(* teams it selected and the random values it left unused.                 *)

\* the while loop of findTiebreakerWinner, then applyCoinToss
RECURSIVE stepLoop(_, _, _, _, _)
stepLoop(pool, ty, stepIdx, iterations, rnds) ==
    IF LoopRuns([type |-> ty, stepIdx |-> stepIdx, iterations |-> iterations])
    THEN LET after(r) ==
                 IF r.eliminated
                 THEN IF Len(r.survivors) = 1
                      THEN [teams |-> r.survivors, rnds |-> rnds]
                      ELSE stepLoop(r.survivors, ty, 0, iterations + 1, rnds)
                 ELSE stepLoop(pool, ty, stepIdx + 1, iterations + 1, rnds)
         IN  after(RunStep(ty, stepIdx, pool))
    ELSE IF Len(pool) <= 1 THEN [teams |-> pool, rnds |-> rnds]
    ELSE [teams |-> <<pool[(IF rnds = <<>> THEN 0 ELSE Head(rnds)) + 1]>>,
          rnds  |-> IF rnds = <<>> THEN rnds ELSE Tail(rnds)]

\* findTiebreakerWinner(divTeams, ..., 'division', ...) on two or more teams
findDivisionWinner(divTeams, rnds) == stepLoop(divTeams, "division", 0, 0, rnds)

\* byDiv.forEach of the wildcard pre-step: the representative of every
\* division, in Map insertion order
RECURSIVE preStep(_, _, _)
preStep(groups, filtered, rnds) ==
    IF groups = <<>> THEN [teams |-> filtered, rnds |-> rnds]
    ELSE IF Len(groups[1]) = 1
    THEN preStep(Tail(groups), Append(filtered, groups[1][1]), rnds)
    ELSE LET after(best) ==
                 preStep(Tail(groups), Append(filtered, best.teams[1]), best.rnds)
         IN  after(findDivisionWinner(groups[1], rnds))

findTiebreakerWinner(candidates, ty, rnds) ==
    LET after(pre) ==
            IF Len(pre.teams) = 1 THEN pre
            ELSE stepLoop(pre.teams, ty, 0, 0, pre.rnds)
    IN  after(IF ty = "wildcard" THEN preStep(ByDiv(candidates), <<>>, rnds)
              ELSE [teams |-> candidates, rnds |-> rnds])

RECURSIVE resolveLoop(_, _, _, _)
resolveLoop(rem, rankedSoFar, ty, rnds) ==
    IF Len(rem) = 0 THEN [teams |-> rankedSoFar, rnds |-> rnds]
    ELSE IF Len(rem) = 1 THEN [teams |-> rankedSoFar \o rem, rnds |-> rnds]
    ELSE LET after(winner) ==
                 resolveLoop(RemoveWinners(rem, winner.teams),
                             rankedSoFar \o winner.teams, ty, winner.rnds)
         IN  after(findTiebreakerWinner(rem, ty, rnds))

resolveTiedGroup(group, ty, rnds) == resolveLoop(group, <<>>, ty, rnds)

\* the inner while loop of sortTeams on the sorted list s
RECURSIVE groupEndIn(_, _, _)
groupEndIn(s, from, k) ==
    IF k <= Len(s) /\ NearEq(getWinPct(statsMap[s[k]]), getWinPct(statsMap[s[from]]))
    THEN groupEndIn(s, from, k + 1)
    ELSE k

\* the outer while loop of sortTeams from position from on
RECURSIVE groupLoop(_, _, _, _, _)
groupLoop(s, from, out, ty, rnds) ==
    IF from > Len(s) THEN [teams |-> out, rnds |-> rnds]
    ELSE LET nxt == groupEndIn(s, from, from + 1)
             tiedGroup == SubSeq(s, from, nxt - 1)
         IN  IF Len(tiedGroup) = 1
             THEN groupLoop(s, nxt, Append(out, tiedGroup[1]), ty, rnds)
             ELSE LET after(resolved) ==
                          groupLoop(s, nxt, out \o resolved.teams, ty, resolved.rnds)
                  IN  after(resolveTiedGroup(tiedGroup, ty, rnds))

sortTeams(tms, ty, rnds) == groupLoop(SortByWinPct(tms), 1, <<>>, ty, rnds)

----------------------------------------------------------------------------
(* Inputs.  The schedule is a selection from a fixed list of game slots;   *)
(* an outcome assigns each selected slot "unplayed", "home", "away" or     *)
(* "tie".  scheduleMap and teamGamesMap follow from the schedule as in     *)
(* runSimulation.                                                          *)

\* longest team list handed to sortTeams
MaxTeams == 3

\* every record below is a multiple of this number of games
Scale == 1

TeamNames == <<"A", "B", "C", "D", "E">>

Slot(id, home, away) == [id |-> id, homeTeamId |-> home, awayTeamId |-> away]

Slots == <<
    Slot("ab1", "A", "B"), Slot("ab2", "B", "A"),
    Slot("ac1", "A", "C"), Slot("ac2", "C", "A"),
    Slot("bc1", "B", "C"), Slot("bc2", "C", "B"),
    Slot("ax1", "A", "X"), Slot("ax2", "X", "A"),
    Slot("ay1", "A", "Y"), Slot("ay2", "Y", "A"),
    Slot("bx1", "B", "X"), Slot("bx2", "X", "B"),
    Slot("by1", "B", "Y"), Slot("by2", "Y", "B"),
    Slot("cx1", "C", "X"), Slot("cx2", "X", "C"),
    Slot("cy1", "C", "Y"), Slot("cy2", "Y", "C") >>

\* o: a record slot id -> outcome; a slot it does not name is not scheduled
GamesOf(o) == SelectSeq(Slots, LAMBDA g : g.id \in DOMAIN o /\ o[g.id] # "none")

ResultsOf(o) ==
    LET played == {k \in 1..Len(Slots) :
                      /\ Slots[k].id \in DOMAIN o
                      /\ o[Slots[k].id] \in {"home", "away", "tie"}}
        slotOf(id) == Slots[CHOOSE k \in played : Slots[k].id = id]
    IN  [id \in {Slots[k].id : k \in played} |->
            CASE o[id] = "home" -> slotOf(id).homeTeamId
              [] o[id] = "away" -> slotOf(id).awayTeamId
              [] o[id] = "tie"  -> TIE]

\* won/lost/tied records and ratios the inputs are drawn from
RecLo == <<Scale, Scale, 0>>
RecHi == <<2 * Scale, 0, 0>>
RecTies == <<0, 0, 2 * Scale>>
RecNone == <<0, 0, 0>>
RatLo == <<1, 2>>
RatHi == <<2, 3>>

MkStats(o, d, c, v, s) ==
    [wins |-> o[1], losses |-> o[2], ties |-> o[3],
     divWins |-> d[1], divLosses |-> d[2], divTies |-> d[3],
     confWins |-> c[1], confLosses |-> c[2], confTies |-> c[3],
     sov |-> v, sos |-> s]

BaseStats == MkStats(RecLo, RecLo, RecLo, RatLo, RatLo)

\* a team with one criterion raised: "" (none), "div", "conf", "sov", "sos"
Raised(m) ==
    MkStats(RecLo,
            IF m = "div" THEN RecHi ELSE RecLo,
            IF m = "conf" THEN RecHi ELSE RecLo,
            IF m = "sov" THEN RatHi ELSE RatLo,
            IF m = "sos" THEN RatHi ELSE RatLo)

AllTeams == Range(TeamNames)

StatsWith(f) == [t \in AllTeams |-> IF t \in DOMAIN f THEN f[t] ELSE BaseStats]

DivWith(f) == [t \in AllTeams |-> IF t \in DOMAIN f THEN f[t] ELSE "East"]

Setup(tms, ty, dv, st, o) ==
    /\ teams = tms
    /\ type = ty
    /\ division = DivWith(dv)
    /\ statsMap = StatsWith(st)
    /\ allGames = GamesOf(o)
    /\ gameResults = ResultsOf(o)

Types == {"division", "wildcard"}
LoHi == {RecLo, RecHi}
RLoHi == {RatLo, RatHi}
Meet == {"none", "home", "away", "tie"}

\* two teams, every criterion of the step lists varied, one meeting
InputsPair ==
    \E ty \in Types, bDiv \in {"East", "West"}, ab \in Meet,
       d \in [{"A", "B"} -> LoHi], c \in [{"A", "B"} -> LoHi],
       v \in [{"A", "B"} -> RLoHi], s \in [{"A", "B"} -> RLoHi] :
        Setup(<<"A", "B">>, ty, [B |-> bDiv],
              [t \in {"A", "B"} |-> MkStats(RecLo, d[t], c[t], v[t], s[t])],
              [ab1 |-> ab])

\* two teams of different divisions and their games against X and Y
InputsCommon ==
    \E ty \in Types,
       st \in {<<"", "">>, <<"conf", "">>, <<"", "conf">>, <<"", "div">>},
       o \in [ax1 : {"home", "away"}, ax2 : {"none", "unplayed", "away"},
              ay1 : {"none", "home"}, ay2 : {"none", "away", "tie"},
              bx1 : {"home", "away"}, bx2 : {"none", "home"},
              by1 : {"none", "away"}, by2 : {"none", "home"}] :
        Setup(<<"A", "B">>, ty, [B |-> "West"],
              [A |-> Raised(st[1]), B |-> Raised(st[2])], o)

DivChoices ==
    {[A |-> "East", B |-> "East", C |-> "East"],
     [A |-> "East", B |-> "West", C |-> "North"],
     [A |-> "East", B |-> "East", C |-> "West"],
     [A |-> "East", B |-> "West", C |-> "West"]}

\* three teams, the meetings among them varied (sweeps, cycles, split series)
InputsH2H ==
    \E ty \in Types, dv \in DivChoices, cDiv \in LoHi,
       o \in [ab1 : Meet, ac1 : Meet, bc1 : Meet,
              ab2 : {"none", "away"}, ac2 : {"none", "home"}] :
        /\ ty = "division" => dv = [A |-> "East", B |-> "East", C |-> "East"]
        /\ Setup(<<"A", "B", "C">>, ty, dv,
                 [C |-> MkStats(RecLo, cDiv, RecLo, RatLo, RatLo)], o)

Crit == {"", "div", "conf", "sov", "sos"}

\* three teams, one criterion raised per team, few meetings
InputsStats ==
    \E ty \in Types, dv \in DivChoices, m \in [{"A", "B", "C"} -> Crit],
       o \in [ab1 : {"none", "home", "away"}, ac1 : {"none", "away"}] :
        /\ ty = "division" => dv = [A |-> "East", B |-> "East", C |-> "East"]
        /\ ty = "wildcard" => dv # [A |-> "East", B |-> "West", C |-> "West"]
        /\ Setup(<<"A", "B", "C">>, ty, dv, [t \in {"A", "B", "C"} |-> Raised(m[t])], o)

\* the four games of a team t against X and Y: not scheduled, 4-0, 2-2 or 0-4
Four(t, k) ==
    LET ids == IF t = "A" THEN <<"ax1", "ax2", "ay1", "ay2">>
               ELSE IF t = "B" THEN <<"bx1", "bx2", "by1", "by2">>
               ELSE <<"cx1", "cx2", "cy1", "cy2">>
        win(n) == IF n % 2 = 1 THEN "home" ELSE "away"
        lose(n) == IF n % 2 = 1 THEN "away" ELSE "home"
    IN  [id \in Range(ids) |->
            LET n == CHOOSE q \in 1..4 : ids[q] = id
            IN  CASE k = "none" -> "none"
                  [] k = "4-0" -> win(n)
                  [] k = "2-2" -> IF n <= 2 THEN win(n) ELSE lose(n)
                  [] k = "0-4" -> lose(n)]

\* three teams with four common games each
InputsCommon3 ==
    \E ty \in Types, k \in [{"A", "B", "C"} -> {"none", "4-0", "2-2", "0-4"}],
       ab \in {"none", "home", "away"}, aSos \in RLoHi :
        Setup(<<"A", "B", "C">>, ty,
              IF ty = "division" THEN [A |-> "East"]
              ELSE [A |-> "East", B |-> "West", C |-> "North"],
              [A |-> MkStats(RecLo, RecLo, RecLo, RatLo, aSos)],
              [ab1 |-> ab] @@ Four("A", k["A"]) @@ Four("B", k["B"]) @@ Four("C", k["C"]))

Overall == {RecLo, RecHi, RecTies, RecNone}

\* lists of 0..MaxTeams teams with different overall records; only the first
\* team may have played no game at all
InputsOverall ==
    \E n \in 0..MaxTeams, ty \in Types, ov \in [1..MaxTeams -> Overall],
       aDiv \in LoHi, flip \in BOOLEAN :
        /\ \A k \in (n + 1)..MaxTeams : ov[k] = RecLo
        /\ \A k \in 2..MaxTeams : ov[k] # RecNone
        /\ Setup(IF flip THEN [k \in 1..n |-> TeamNames[n + 1 - k]]
                 ELSE [k \in 1..n |-> TeamNames[k]],
                 ty,
                 [t \in {TeamNames[k] : k \in {q \in 1..MaxTeams : q % 2 = 0}} |-> "West"],
                 [t \in {TeamNames[k] : k \in 1..MaxTeams} |->
                    LET k == CHOOSE q \in 1..MaxTeams : TeamNames[q] = t
                    IN  MkStats(ov[k], IF t = "A" THEN aDiv ELSE RecLo, RecLo, RatLo, RatLo)],
                 [ab1 |-> IF flip THEN "away" ELSE "none"])

\* the state of runSimulation before it is called
NoGame == [id |-> "", week |-> 0, drew |-> FALSE, rand |-> 0, winProb |-> 0,
           winnerId |-> "", homeWins |-> FALSE, isTie |-> FALSE,
           homeElo |-> 0, awayElo |-> 0, before |-> <<>>]

NoSeeding == [afc |-> <<>>, nfc |-> <<>>]

NotReturned == [kind |-> "none"]

\* the limiter before any call of kalshiGet
KalshiIdle ==
    /\ queue = <<>>
    /\ active = 0
    /\ lastStart = 0
    /\ now = 0
    /\ calls = <<>>

NoMessage == [action |-> "", targetPlayoffOdds |-> <<>>]

\* the worker before any message
WorkerIdle ==
    /\ workerPc = "idle"
    /\ message = NoMessage
    /\ round = 0
    /\ received = 0
    /\ posted = <<>>
    /\ terminated = FALSE

SimIdle ==
    /\ initialTeams = <<>>
    /\ numSimulations = 0
    /\ oddsMap = <<>>
    /\ kalshiEloMap = <<>>
    /\ userPicks = <<>>
    /\ simPc = "idle"
    /\ sim = 0
    /\ simElo = <<>>
    /\ simWinsAgainst = <<>>
    /\ giPos = 1
    /\ madePlayoffs = <<>>
    /\ wonDivision = <<>>
    /\ madeWildcard = <<>>
    /\ wonFirstSeed = <<>>
    /\ gameHomeWins = <<>>
    /\ returned = NotReturned
    /\ randomCalls = 0
    /\ resolvedGames = <<>>
    /\ lastGame = NoGame
    /\ lastSeeding = NoSeeding

Init ==
    /\ KalshiIdle
    /\ WorkerIdle
    /\ SimIdle
    /\ \/ InputsPair
       \/ InputsCommon
       \/ InputsH2H
       \/ InputsStats
       \/ InputsCommon3
       \/ InputsOverall
    /\ pc = "start"
    /\ byWinPct = <<>>
    /\ i = 1
    /\ j = 1
    /\ result = <<>>
    /\ remaining = <<>>
    /\ ranked = <<>>
    /\ stack = <<>>
    /\ lastStep = NoStep
    /\ touched = {}
    /\ extractions = 0
    /\ draws = <<>>

Spec == Init /\ [][Next]_vars

----------------------------------------------------------------------------
(* runSimulation: the rating model (services/eloService.ts).               *)
(* A probability p is kept as the integer p * ProbScale; a rating r as the *)
(* integer r * EloUnit, so that K_FACTOR * (1 - p) is an integer.          *)

\* const K_FACTOR = 20
K_FACTOR == 20

\* const HOME_FIELD_ADVANTAGE = 48
HOME_FIELD_ADVANTAGE == 48

\* const TIE_PROB = 0.003, in units of 1 / ProbScale
TIE_PROB_E4 == 30

ProbScale == 100 * 100

EloUnit == ProbScale \div K_FACTOR

\* 1 / (1 + 10^(-diff / 400)) * ProbScale at diff = -800, -775, ..., 800
LogisticTable == <<
    99, 114, 132, 152, 175, 201, 232, 267, 307, 352, 405,
    464, 532, 610, 698, 797, 909, 1035, 1177, 1334, 1510, 1704,
    1917, 2150, 2403, 2675, 2966, 3275, 3599, 3937, 4285, 4641, 5000,
    5359, 5715, 6063, 6401, 6725, 7034, 7325, 7597, 7850, 8083, 8296,
    8490, 8666, 8823, 8965, 9091, 9203, 9302, 9390, 9468, 9536, 9595,
    9648, 9693, 9733, 9768, 9799, 9825, 9848, 9868, 9886, 9901 >>

\* 1 / (1 + Math.pow(10, -diff / 400)): the table, linear between its
\* entries (within 3 / ProbScale of the exact value); diff in rating units
eloDiffToWinProb(diff) ==
    LET lowest == -800 * EloUnit
        width == 25 * EloUnit
        k == (diff - lowest) \div width
        r == (diff - lowest) % width
    IN  IF diff <= lowest THEN LogisticTable[1]
        ELSE IF diff >= -lowest THEN LogisticTable[Len(LogisticTable)]
        ELSE LogisticTable[k + 1]
             + ((LogisticTable[k + 2] - LogisticTable[k + 1]) * r) \div width

\* mutant: the home-field offset is left out
calculateWinProbability_NoHomeField(teamElo, opponentElo, isHome) ==
    LET prob == eloDiffToWinProb(teamElo - opponentElo)
        lowP == ProbScale \div 100
    IN  IF prob < lowP THEN lowP
        ELSE IF prob > ProbScale - lowP THEN ProbScale - lowP ELSE prob

\* calculateWinProbability: Math.max(0.01, Math.min(0.99, prob))
calculateWinProbability(teamElo, opponentElo, isHome) ==
    LET hfa == IF isHome THEN HOME_FIELD_ADVANTAGE * EloUnit
               ELSE -(HOME_FIELD_ADVANTAGE * EloUnit)
        diff == teamElo - opponentElo + hfa
        prob == eloDiffToWinProb(diff)
        lowP == ProbScale \div 100
    IN  IF prob < lowP THEN lowP
        ELSE IF prob > ProbScale - lowP THEN ProbScale - lowP ELSE prob

\* mutant: the expectation of a tie ignores the home field
updateEloAfterTie_NoHomeField(team1Elo, team2Elo, team1WasHome) ==
    LET team1Expected == calculateWinProbability_NoHomeField(team1Elo, team2Elo,
                                                             team1WasHome)
        eloChange == (K_FACTOR * EloUnit * (ProbScale \div 2 - team1Expected))
                     \div ProbScale
    IN  [newTeam1Elo |-> team1Elo + eloChange, newTeam2Elo |-> team2Elo - eloChange]

\* updateEloAfterTie: eloChange = K_FACTOR * (0.5 - team1Expected)
updateEloAfterTie(team1Elo, team2Elo, team1WasHome) ==
    LET team1Expected == calculateWinProbability(team1Elo, team2Elo, team1WasHome)
        eloChange == (K_FACTOR * EloUnit * (ProbScale \div 2 - team1Expected))
                     \div ProbScale
    IN  [newTeam1Elo |-> team1Elo + eloChange, newTeam2Elo |-> team2Elo - eloChange]

\* const eloChange = K_FACTOR * (1 - winnerExpected)
WinEloChange(winnerElo, loserElo, winnerWasHome) ==
    LET winnerExpected == calculateWinProbability(winnerElo, loserElo, winnerWasHome)
    IN  (K_FACTOR * EloUnit * (ProbScale - winnerExpected)) \div ProbScale

----------------------------------------------------------------------------
(* runSimulation: the values computed once, before the trials              *)

\* initialTeams.map(t => t.id)
teamIds == [k \in 1..Len(initialTeams) |-> initialTeams[k].id]

\* teamById.get(id)
teamById(id) ==
    initialTeams[CHOOSE k \in 1..Len(initialTeams) : initialTeams[k].id = id]

\* a counter array of numTeams zeros (new Uint32Array(numTeams)), by team id
ZeroPerTeam == [t \in Range(teamIds) |-> 0]

\* allGames.filter(g => !g.isFinished)
remainingGames == SelectSeq(allGames, LAMBDA g : ~g.isFinished)

\* new Uint32Array(remainingGames.length), by game id
ZeroPerGame == [id \in {remainingGames[k].id : k \in 1..Len(remainingGames)} |-> 0]

\* initialWinsAgainst: for every team the opponents it beat in finished
\* games, one entry per win, in schedule order
initialWinsAgainst ==
    [t \in Range(teamIds) |->
        LET won == SelectSeq(allGames, LAMBDA g :
                       /\ g.isFinished
                       /\ g.winnerId # ""
                       /\ g.winnerId = t
                       /\ t \in {g.homeTeamId, g.awayTeamId})
        IN  [k \in 1..Len(won) |-> OppOf(won[k], t)]]

\* finishedResults: allGames.filter(g => g.isFinished && g.winnerId)
finishedResults ==
    LET fin == SelectSeq(allGames, LAMBDA g : g.isFinished /\ g.winnerId # "")
    IN  [id \in {fin[k].id : k \in 1..Len(fin)} |->
            fin[CHOOSE k \in 1..Len(fin) : fin[k].id = id].winnerId]

\* remainingByWeek.keys(): the weeks in the order of their first game
RECURSIVE WeekKeys(_, _)
WeekKeys(gs, seen) ==
    IF gs = <<>> THEN <<>>
    ELSE IF Head(gs).week \in seen THEN WeekKeys(Tail(gs), seen)
    ELSE <<Head(gs).week>> \o WeekKeys(Tail(gs), seen \cup {Head(gs).week})

\* Array.prototype.sort((a, b) => a - b) on distinct numbers
RECURSIVE SortAscending(_)
SortAscending(s) ==
    IF s = <<>> THEN <<>>
    ELSE LET least == CHOOSE k \in 1..Len(s) : \A m \in 1..Len(s) : s[k] <= s[m]
         IN  <<s[least]>>
             \o SortAscending([m \in 1..(Len(s) - 1) |->
                                  IF m < least THEN s[m] ELSE s[m + 1]])

\* mutant: the weeks are taken in the order of the input list
weeks_InputOrder == WeekKeys(remainingGames, {})

\* const weeks = Array.from(remainingByWeek.keys()).sort((a, b) => a - b)
weeks == SortAscending(WeekKeys(remainingGames, {}))

\* the pre-computed record of one remaining game; "" stands for undefined
gameInfo(g) ==
    LET home == teamById(g.homeTeamId)
        away == teamById(g.awayTeamId)
    IN  [game |-> g,
         home |-> home,
         away |-> away,
         sameConf |-> home.conference = away.conference,
         sameDiv |-> home.division = away.division,
         hasMarketOdds |-> g.id \in DOMAIN oddsMap,
         marketOdds |-> IF g.id \in DOMAIN oddsMap THEN oddsMap[g.id] ELSE 0,
         userPick |-> IF g.id \in DOMAIN userPicks THEN userPicks[g.id] ELSE ""]

\* gameInfoByWeek.get(week): the games of the week in input order
gameInfoByWeek(week) ==
    LET gs == SelectSeq(remainingGames, LAMBDA g : g.week = week)
    IN  [k \in 1..Len(gs) |-> gameInfo(gs[k])]

\* the order in which "for (const week of weeks) for (const gi of
\* weekGameInfo)" visits the games
RECURSIVE VisitOrder(_)
VisitOrder(ws) ==
    IF ws = <<>> THEN <<>>
    ELSE gameInfoByWeek(Head(ws)) \o VisitOrder(Tail(ws))

\* initialTeams.filter(t => t.conference === conf), as ids
conferenceTeams(conf) ==
    SelectSeq(teamIds, LAMBDA t : teamById(t).conference = conf)

afcTeams == conferenceTeams("AFC")

nfcTeams == conferenceTeams("NFC")

\* const divisions = ['North', 'South', 'East', 'West']
divisions == <<"North", "South", "East", "West">>

\* afcByDiv / nfcByDiv .get(div)
teamsOfDivision(confTeams, div) ==
    SelectSeq(confTeams, LAMBDA t : teamById(t).division = div)

\* baseStatsTemplate, by team id (gamesPlayed is never read and left out)
baseStatsTemplate ==
    [t \in Range(teamIds) |->
        [wins |-> teamById(t).wins,
         losses |-> teamById(t).losses,
         ties |-> teamById(t).ties,
         divWins |-> teamById(t).divisionWins,
         divLosses |-> teamById(t).divisionLosses,
         divTies |-> teamById(t).divisionTies,
         confWins |-> teamById(t).conferenceWins,
         confLosses |-> teamById(t).conferenceLosses,
         confTies |-> teamById(t).conferenceTies,
         sov |-> <<0, 1>>,
         sos |-> <<0, 1>>]]

\* baseEloArray, by team id (every team has a rating once validation passed)
baseEloArray ==
    [t \in Range(teamIds) |-> IF t \in DOMAIN kalshiEloMap THEN kalshiEloMap[t] ELSE 0]

\* mutant: only the empty rating map is rejected
missingRating_OnlyEmptyMap == DOMAIN kalshiEloMap = {}

\* mutant: an empty conference is rejected as well
missingRating_OrEmptyConference ==
    \/ DOMAIN kalshiEloMap = {}
    \/ \E k \in 1..Len(initialTeams) : initialTeams[k].id \notin DOMAIN kalshiEloMap
    \/ afcTeams = <<>>
    \/ nfcTeams = <<>>

\* the two throw statements at the top of runSimulation
missingRating ==
    \/ DOMAIN kalshiEloMap = {}
    \/ \E k \in 1..Len(initialTeams) : initialTeams[k].id \notin DOMAIN kalshiEloMap

----------------------------------------------------------------------------
(* runSimulation: one simulated game                                       *)

\* mutant: the rating model is used even when market odds exist
winProbOf_RatingOnly(gi, homeElo, awayElo) ==
    calculateWinProbability(homeElo, awayElo, TRUE)

\* const winProb = hasMarketOdds ? marketOdds : calculateWinProbability(...)
winProbOf(gi, homeElo, awayElo) ==
    IF gi.hasMarketOdds THEN gi.marketOdds
    ELSE calculateWinProbability(homeElo, awayElo, TRUE)

\* the outcome decision; rand is Math.random() * ProbScale, used only when
\* no outcome is forced.  adjustedRand < winProb is evaluated exactly:
\* (rand - TIE_PROB) / (1 - TIE_PROB) < winProb
decideOutcome(gi, homeElo, awayElo, rand) ==
    IF gi.userPick # ""
    THEN [drew |-> FALSE,
          winnerId |-> gi.userPick,
          isTie |-> gi.userPick = TIE,
          homeWins |-> gi.userPick # TIE /\ gi.userPick = gi.home.id,
          winProb |-> 0]
    ELSE LET winProb == winProbOf(gi, homeElo, awayElo)
             isTie == rand < TIE_PROB_E4
             homeWins == /\ ~isTie
                         /\ (rand - TIE_PROB_E4) * ProbScale
                              < winProb * (ProbScale - TIE_PROB_E4)
         IN  [drew |-> TRUE,
              winnerId |-> IF isTie THEN TIE
                           ELSE IF homeWins THEN gi.home.id ELSE gi.away.id,
              isTie |-> isTie,
              homeWins |-> homeWins,
              winProb |-> winProb]

\* one team's counters after a game: res is "win", "loss" or "tie"
countResult(stats, res, inConf, inDiv) ==
    LET n(r, counts) == IF counts /\ res = r THEN 1 ELSE 0
    IN  [stats EXCEPT !.wins = @ + n("win", TRUE),
                      !.losses = @ + n("loss", TRUE),
                      !.ties = @ + n("tie", TRUE),
                      !.confWins = @ + n("win", inConf),
                      !.confLosses = @ + n("loss", inConf),
                      !.confTies = @ + n("tie", inConf),
                      !.divWins = @ + n("win", inDiv),
                      !.divLosses = @ + n("loss", inDiv),
                      !.divTies = @ + n("tie", inDiv)]

\* mutant: the division counters follow the division name alone
countsForDivision_NameOnly(gi) == gi.sameDiv

\* "if (sameDiv)" is nested in "if (sameConf)"
countsForDivision(gi) == gi.sameConf /\ gi.sameDiv

\* "Update stats (inlined for speed)"
updateStats(st, gi, o) ==
    LET homeRes == IF o.isTie THEN "tie" ELSE IF o.homeWins THEN "win" ELSE "loss"
        awayRes == IF o.isTie THEN "tie" ELSE IF o.homeWins THEN "loss" ELSE "win"
        afterHome == [st EXCEPT ![gi.home.id] =
                         countResult(@, homeRes, gi.sameConf, countsForDivision(gi))]
    IN  [afterHome EXCEPT ![gi.away.id] =
            countResult(@, awayRes, gi.sameConf, countsForDivision(gi))]

\* simWinsAgainst.get(winner)!.push(loser)
updateWinsAgainst(wa, gi, o) ==
    IF o.isTie THEN wa
    ELSE IF o.homeWins THEN [wa EXCEPT ![gi.home.id] = Append(@, gi.away.id)]
    ELSE [wa EXCEPT ![gi.away.id] = Append(@, gi.home.id)]

\* mutant: the ratings of a trial stay at their seed values
updateElo_SeedOnly(elo, gi, o) == elo

\* the three "Elo update" blocks
updateElo(elo, gi, o) ==
    LET homeElo == elo[gi.home.id]
        awayElo == elo[gi.away.id]
        tied == updateEloAfterTie(homeElo, awayElo, TRUE)
        homeChange == WinEloChange(homeElo, awayElo, TRUE)
        awayChange == WinEloChange(awayElo, homeElo, FALSE)
        afterHome == [elo EXCEPT ![gi.home.id] =
                         IF o.isTie THEN tied.newTeam1Elo
                         ELSE IF o.homeWins THEN homeElo + homeChange
                         ELSE homeElo - awayChange]
    IN  [afterHome EXCEPT ![gi.away.id] =
            IF o.isTie THEN tied.newTeam2Elo
            ELSE IF o.homeWins THEN awayElo - homeChange
            ELSE awayElo + awayChange]

\* gameResults.set(game.id, winnerId)
setResult(results, id, winnerId) ==
    [k \in DOMAIN results \cup {id} |-> IF k = id THEN winnerId ELSE results[k]]

----------------------------------------------------------------------------
(* computeScheduleStrength (simulation/scheduleStrength.ts)                *)

\* the loop "for (const oppId of opponents)": <<2 * sum of the opponents'
\* weighted wins, sum of the opponents' totals>>; an opponent without an
\* index is skipped
RECURSIVE combinedRecord(_, _)
combinedRecord(opponents, st) ==
    IF opponents = <<>> THEN <<0, 0>>
    ELSE LET oppId == Head(opponents)
             rest == combinedRecord(Tail(opponents), st)
         IN  IF oppId \notin DOMAIN st THEN rest
             ELSE <<rest[1] + 2 * st[oppId].wins + st[oppId].ties,
                    rest[2] + st[oppId].wins + st[oppId].losses + st[oppId].ties>>

\* mutant: the simple average of the opponents' percentages
strengthRatio_Average(opponents, st) ==
    LET sum[k \in 0..Len(opponents)] ==
            IF k = 0 THEN <<0, 1>>
            ELSE LET pct == getWinPct(st[opponents[k]])
                 IN  <<pct[1] * sum[k - 1][2] + sum[k - 1][1] * pct[2],
                       pct[2] * sum[k - 1][2]>>
    IN  IF opponents = <<>> THEN <<0, 1>>
        ELSE <<sum[Len(opponents)][1], sum[Len(opponents)][2] * Len(opponents)>>

\* sosTotal > 0 ? sosWins / sosTotal : 0
strengthRatio(opponents, st) ==
    LET c == combinedRecord(opponents, st)
    IN  IF c[2] > 0 THEN <<c[1], 2 * c[2]>> ELSE <<0, 1>>

\* the opponents' records are read from the snapshot taken by the first
\* forEach, so the order of the second forEach does not matter
computeScheduleStrength(st, winsAgainst) ==
    [t \in DOMAIN st |->
        [st[t] EXCEPT !.sos = strengthRatio(opponentsMap(t), st),
                      !.sov = strengthRatio(winsAgainst[t], st)]]

----------------------------------------------------------------------------
(* runSimulation: playoff seeding of one trial                             *)

\* mutant: the division winner stays in the wildcard pool
wildcardPoolOf_All(sorted) == sorted

\* for (let i = 1; i < sorted.length; i++) wcPool.push(sorted[i])
wildcardPoolOf(sorted) == Tail(sorted)

\* "for (const div of divisions)" of processConference from division k on;
\* rnds are the values Math.random will give to the coin tosses
RECURSIVE divisionLoop(_, _, _, _, _)
divisionLoop(confTeams, k, divWinners, wcPool, rnds) ==
    IF k > Len(divisions)
    THEN [divWinners |-> divWinners, wcPool |-> wcPool, rnds |-> rnds]
    ELSE LET after(sorted) ==
                 IF Len(sorted.teams) > 0
                 THEN divisionLoop(confTeams, k + 1,
                                   Append(divWinners, sorted.teams[1]),
                                   wcPool \o wildcardPoolOf(sorted.teams), sorted.rnds)
                 ELSE divisionLoop(confTeams, k + 1, divWinners, wcPool, sorted.rnds)
         IN  after(sortTeams(teamsOfDivision(confTeams, divisions[k]),
                             "division", rnds))

FirstThree_All(s) == s

\* seededWildcards.slice(0, 3)
FirstThree(s) == SubSeq(s, 1, IF Len(s) < 3 THEN Len(s) ELSE 3)

\* processConference; firstSeed "" stands for null
processConference(confTeams, rnds) ==
    LET seeding(d, seededWinners, seededWildcards) ==
            [winners |-> seededWinners.teams,
             wildcards |-> FirstThree(seededWildcards.teams),
             firstSeed |-> IF seededWinners.teams = <<>> THEN ""
                           ELSE seededWinners.teams[1],
             wcPool |-> d.wcPool,
             seededWildcards |-> seededWildcards.teams,
             rnds |-> seededWildcards.rnds]
        seedWildcards(d, seededWinners) ==
            seeding(d, seededWinners,
                    sortTeams(d.wcPool, "wildcard", seededWinners.rnds))
        seedWinners(d) ==
            seedWildcards(d, sortTeams(d.divWinners, "wildcard", d.rnds))
    IN  seedWinners(divisionLoop(confTeams, 1, <<>>, <<>>, rnds))

\* "for (const t of list) counter[idx]++"
Tally(counter, list) ==
    [t \in DOMAIN counter |->
        counter[t] + Cardinality({k \in 1..Len(list) : list[k] = t})]

----------------------------------------------------------------------------
(* runSimulation: the returned value                                       *)

\* count / numSimulations in IEEE arithmetic
Quotient(count, n) ==
    IF n # 0 THEN <<count, n>> ELSE IF count = 0 THEN "NaN" ELSE "Infinity"

\* .sort((a, b) => b.playoffProb - a.playoffProb): stable, descending by the
\* counter; a comparator value of NaN counts as 0, which keeps the order
RECURSIVE SortByPlayoffProb(_)
SortByPlayoffProb(rs) ==
    IF rs = <<>> \/ numSimulations = 0 THEN rs
    ELSE LET first == CHOOSE k \in 1..Len(rs) :
                        /\ \A m \in 1..Len(rs) : rs[m].madePlayoffs <= rs[k].madePlayoffs
                        /\ \A m \in 1..(k - 1) : rs[m].madePlayoffs < rs[k].madePlayoffs
             rest == [m \in 1..(Len(rs) - 1) |-> IF m < first THEN rs[m] ELSE rs[m + 1]]
         IN  <<rs[first]>> \o SortByPlayoffProb(rest)

teamResults ==
    SortByPlayoffProb(
        [k \in 1..Len(initialTeams) |->
            LET t == initialTeams[k].id
            IN  [teamId |-> t,
                 madePlayoffs |-> madePlayoffs[t],
                 wonDivision |-> wonDivision[t],
                 madeWildcard |-> madeWildcard[t],
                 wonFirstSeed |-> wonFirstSeed[t],
                 totalSimulations |-> numSimulations,
                 playoffProb |-> Quotient(madePlayoffs[t], numSimulations),
                 divisionProb |-> Quotient(wonDivision[t], numSimulations),
                 wildcardProb |-> Quotient(madeWildcard[t], numSimulations),
                 firstSeedProb |-> Quotient(wonFirstSeed[t], numSimulations)]])

simulatedOdds ==
    [id \in DOMAIN gameHomeWins |-> Quotient(gameHomeWins[id], numSimulations)]

----------------------------------------------------------------------------
(* runSimulation as a state machine                                        *)

\* the values Math.random() * ProbScale the game loop is run on: a tie, the
\* lowest value that is no tie, a value in between, the highest value
RandValues == {0, TIE_PROB_E4, (57 * ProbScale) \div 100, ProbScale - 1}

\* the values Math.floor(Math.random() * pool.length) the coin tosses of one
\* trial are run on, in the order of the tosses
TossStreams == [1..2 -> 0..1]

\* new Map(finishedResults)
cloneResults(finished) == finished

\* mutant: the ratings of the previous trial are kept
cloneElo_Shared(base) == IF sim = 0 THEN base ELSE simElo

\* new Float64Array(baseEloArray)
cloneElo(base) == base

\* initialWinsAgainst.forEach((opps, teamId) => simWinsAgainst.set(teamId, [...opps]))
cloneWinsAgainst(initial) == initial

\* mutant: the counters of the previous trial are kept
cloneStats_Shared(template) == IF sim = 0 THEN template ELSE statsMap

\* statsMap.set(t.id, { wins: template.wins, ... })
cloneStats(template) == template

\* the validation, and the allocation of the result counters
Validate ==
    /\ simPc = "call"
    /\ IF missingRating
       THEN /\ simPc' = "done"
            /\ returned' = [kind |-> "threw"]
            /\ UNCHANGED <<madePlayoffs, wonDivision, madeWildcard, wonFirstSeed,
                           gameHomeWins>>
       ELSE /\ simPc' = "loop"
            /\ madePlayoffs' = ZeroPerTeam
            /\ wonDivision' = ZeroPerTeam
            /\ madeWildcard' = ZeroPerTeam
            /\ wonFirstSeed' = ZeroPerTeam
            /\ gameHomeWins' = ZeroPerGame
            /\ UNCHANGED returned
    /\ UNCHANGED <<kalshiVars, workerVars, sortVars, division, statsMap, allGames, gameResults,
                   initialTeams, numSimulations, oddsMap, kalshiEloMap, userPicks,
                   sim, simElo, simWinsAgainst, giPos, randomCalls, resolvedGames,
                   lastGame, lastSeeding>>

\* for (let sim = 0; sim < numSimulations; sim++): the cloning at the top of
\* the loop body
StartTrial ==
    /\ simPc = "loop"
    /\ sim < numSimulations
    /\ statsMap' = cloneStats(baseStatsTemplate)
    /\ gameResults' = cloneResults(finishedResults)
    /\ simElo' = cloneElo(baseEloArray)
    /\ simWinsAgainst' = cloneWinsAgainst(initialWinsAgainst)
    /\ giPos' = 1
    /\ resolvedGames' = <<>>
    /\ lastGame' = NoGame
    /\ simPc' = "games"
    /\ UNCHANGED <<kalshiVars, workerVars, sortVars, division, allGames, initialTeams, numSimulations,
                   oddsMap, kalshiEloMap, userPicks, sim, madePlayoffs, wonDivision,
                   madeWildcard, wonFirstSeed, gameHomeWins, returned, randomCalls,
                   lastSeeding>>

\* one iteration of "for (const gi of weekGameInfo)"
PlayGame ==
    /\ simPc = "games"
    /\ giPos <= Len(VisitOrder(weeks))
    /\ LET record(gi, rand, o) ==
               /\ gameResults' = setResult(gameResults, gi.game.id, o.winnerId)
               /\ gameHomeWins' = IF o.homeWins /\ gi.game.id \in DOMAIN gameHomeWins
                                  THEN [gameHomeWins EXCEPT ![gi.game.id] = @ + 1]
                                  ELSE gameHomeWins
               /\ statsMap' = updateStats(statsMap, gi, o)
               /\ simWinsAgainst' = updateWinsAgainst(simWinsAgainst, gi, o)
               /\ simElo' = updateElo(simElo, gi, o)
               /\ randomCalls' = randomCalls + (IF o.drew THEN 1 ELSE 0)
               /\ resolvedGames' = Append(resolvedGames, gi.game.id)
               /\ lastGame' = [id |-> gi.game.id, week |-> gi.game.week,
                               drew |-> o.drew, rand |-> IF o.drew THEN rand ELSE 0,
                               winProb |-> o.winProb, winnerId |-> o.winnerId,
                               homeWins |-> o.homeWins, isTie |-> o.isTie,
                               homeElo |-> simElo[gi.home.id],
                               awayElo |-> simElo[gi.away.id],
                               before |-> statsMap]
           play(gi) ==
               \E rand \in RandValues :
                   record(gi, rand, decideOutcome(gi, simElo[gi.home.id],
                                                  simElo[gi.away.id], rand))
       IN  play(VisitOrder(weeks)[giPos])
    /\ giPos' = giPos + 1
    /\ UNCHANGED <<kalshiVars, workerVars, sortVars, division, allGames, initialTeams, numSimulations,
                   oddsMap, kalshiEloMap, userPicks, simPc, sim, madePlayoffs,
                   wonDivision, madeWildcard, wonFirstSeed, returned, lastSeeding>>

\* the week loop is over: computeScheduleStrength({ statsMap, ... })
ComputeStrength ==
    /\ simPc = "games"
    /\ giPos > Len(VisitOrder(weeks))
    /\ statsMap' = computeScheduleStrength(statsMap, simWinsAgainst)
    /\ simPc' = "seeding"
    /\ UNCHANGED <<kalshiVars, workerVars, sortVars, division, allGames, gameResults, initialTeams,
                   numSimulations, oddsMap, kalshiEloMap, userPicks, sim, simElo,
                   simWinsAgainst, giPos, madePlayoffs, wonDivision, madeWildcard,
                   wonFirstSeed, gameHomeWins, returned, randomCalls, resolvedGames,
                   lastGame, lastSeeding>>

\* const afc = processConference(afcByDiv); const nfc = processConference(nfcByDiv)
\* (the calls are made one after the other on the same Math.random)
RECURSIVE processConferences(_, _, _)
processConferences(confs, seeded, rnds) ==
    IF confs = <<>> THEN seeded
    ELSE LET after(c) == processConferences(Tail(confs), Append(seeded, c), c.rnds)
         IN  after(processConference(Head(confs), rnds))

seedConferences(rnds) ==
    LET both(seeded) == [afc |-> seeded[1], nfc |-> seeded[2]]
    IN  both(processConferences(<<afcTeams, nfcTeams>>, <<>>, rnds))

\* processConference of both conferences, the counter updates, and sim++.
\* When the first stream is left untouched no coin is tossed and every
\* stream gives the same seeding.
SeedPlayoffs ==
    /\ simPc = "seeding"
    /\ LET firstStream == CHOOSE s \in TossStreams : TRUE
           count(afc, nfc) ==
               /\ madePlayoffs' = Tally(madePlayoffs, afc.winners \o nfc.winners
                                          \o afc.wildcards \o nfc.wildcards)
               /\ wonDivision' = Tally(wonDivision, afc.winners \o nfc.winners)
               /\ madeWildcard' = Tally(madeWildcard, afc.wildcards \o nfc.wildcards)
               /\ wonFirstSeed' = Tally(wonFirstSeed,
                                        SelectSeq(<<afc.firstSeed, nfc.firstSeed>>,
                                                  LAMBDA t : t # ""))
               /\ lastSeeding' = [afc |-> [winners |-> afc.winners,
                                           wildcards |-> afc.wildcards,
                                           firstSeed |-> afc.firstSeed],
                                  nfc |-> [winners |-> nfc.winners,
                                           wildcards |-> nfc.wildcards,
                                           firstSeed |-> nfc.firstSeed],
                                  pools |-> <<[wcPool |-> afc.wcPool,
                                               seededWildcards |-> afc.seededWildcards],
                                              [wcPool |-> nfc.wcPool,
                                               seededWildcards |-> nfc.seededWildcards]>>,
                                  tosses |-> Len(firstStream) - Len(nfc.rnds)]
           tally(seeded) == count(seeded.afc, seeded.nfc)
           trial(seededBy, first) ==
               \E rnds \in IF first.nfc.rnds = firstStream THEN {firstStream}
                            ELSE TossStreams :
                   tally(IF rnds = firstStream THEN first ELSE seededBy[rnds])
           trials(seededBy) == trial(seededBy, seededBy[firstStream])
       IN  trials([rnds \in TossStreams |-> seedConferences(rnds)])
    /\ sim' = sim + 1
    /\ simPc' = "loop"
    /\ UNCHANGED <<kalshiVars, workerVars, sortVars, division, statsMap, allGames, gameResults,
                   initialTeams, numSimulations, oddsMap, kalshiEloMap, userPicks,
                   simElo, simWinsAgainst, giPos, gameHomeWins, returned,
                   randomCalls, resolvedGames, lastGame>>

\* the trial loop is over: return { teamResults, simulatedOdds }
ReturnResults ==
    /\ simPc = "loop"
    /\ ~(sim < numSimulations)
    /\ returned' = [kind |-> "returned", teamResults |-> teamResults,
                    simulatedOdds |-> simulatedOdds]
    /\ simPc' = "done"
    /\ UNCHANGED <<kalshiVars, workerVars, sortVars, division, statsMap, allGames, gameResults,
                   initialTeams, numSimulations, oddsMap, kalshiEloMap, userPicks,
                   sim, simElo, simWinsAgainst, giPos, madePlayoffs, wonDivision,
                   madeWildcard, wonFirstSeed, gameHomeWins, randomCalls,
                   resolvedGames, lastGame, lastSeeding>>

SimNext ==
    \/ Validate
    \/ StartTrial
    \/ PlayGame
    \/ ComputeStrength
    \/ SeedPlayoffs
    \/ ReturnResults

----------------------------------------------------------------------------
(* Inputs of runSimulation                                                 *)

\* the largest number of trials asked for
MaxSims == 2

\* a Team record; o, d, c are its overall, division and conference records
Tm(id, conf, div, o, d, c) ==
    [id |-> id, conference |-> conf, division |-> div,
     wins |-> o[1], losses |-> o[2], ties |-> o[3],
     divisionWins |-> d[1], divisionLosses |-> d[2], divisionTies |-> d[3],
     conferenceWins |-> c[1], conferenceLosses |-> c[2], conferenceTies |-> c[3]]

\* a Game record; winnerId "" stands for undefined
Gm(id, week, home, away, isFinished, winnerId) ==
    [id |-> id, week |-> week, homeTeamId |-> home, awayTeamId |-> away,
     isFinished |-> isFinished, winnerId |-> winnerId]

\* a rating of r points
Elo(r) == r * EloUnit

\* the call runSimulation(tms, games, n, odds, elo, picks)
SimSetup(tms, games, n, odds, elo, picks) ==
    /\ initialTeams = tms
    /\ allGames = games
    /\ numSimulations = n
    /\ oddsMap = odds
    /\ kalshiEloMap = elo
    /\ userPicks = picks
    /\ division = [t \in {tms[k].id : k \in 1..Len(tms)} |->
                      tms[CHOOSE k \in 1..Len(tms) : tms[k].id = t].division]

\* a league of two conferences with an AFC East and an NFC East; one game is
\* finished, three are left, listed out of week order; n2 plays nobody
LeagueTeams ==
    <<Tm("a1", "AFC", "East", <<1, 0, 0>>, <<1, 0, 0>>, <<1, 0, 0>>),
      Tm("a2", "AFC", "East", <<0, 1, 0>>, <<0, 1, 0>>, <<0, 1, 0>>),
      Tm("a3", "AFC", "North", RecNone, RecNone, RecNone),
      Tm("n1", "NFC", "East", RecNone, RecNone, RecNone),
      Tm("n2", "NFC", "East", RecNone, RecNone, RecNone)>>

LeagueGames(late) ==
    IF late
    THEN <<Gm("w3", 3, "a2", "a1", FALSE, ""), Gm("f1", 1, "a1", "a2", TRUE, "a1"),
           Gm("w2a", 2, "a1", "n1", FALSE, ""), Gm("w2b", 2, "a3", "a2", FALSE, "")>>
    ELSE <<Gm("w2a", 2, "a1", "n1", FALSE, ""), Gm("w3", 3, "a2", "a1", FALSE, ""),
           Gm("w2b", 2, "a3", "a2", FALSE, ""), Gm("f1", 1, "a1", "a2", TRUE, "a1")>>

\* ratings: all equal, all different, one team without, none at all
LeagueRatings ==
    <<[t \in {"a1", "a2", "a3", "n1", "n2"} |-> Elo(1500)],
      [a1 |-> Elo(1620), a2 |-> Elo(1450), a3 |-> Elo(1500), n1 |-> Elo(1380),
       n2 |-> Elo(1500)],
      [t \in {"a1", "a2", "a3", "n1"} |-> Elo(1500)],
      <<>>>>

LeagueOdds == [w3 |-> (15 * ProbScale) \div 100, w2a |-> (15 * ProbScale) \div 100]

\* market odds, ratings and forced outcomes of the calls
LeagueCalls ==
    <<[odds |-> <<>>, elo |-> LeagueRatings[1], picks |-> <<>>],
     [odds |-> <<>>, elo |-> LeagueRatings[2], picks |-> <<>>],
     [odds |-> LeagueOdds, elo |-> LeagueRatings[1], picks |-> <<>>],
     [odds |-> LeagueOdds, elo |-> LeagueRatings[2], picks |-> [w3 |-> "a2"]],
     [odds |-> <<>>, elo |-> LeagueRatings[2], picks |-> [w3 |-> "a1"]],
     [odds |-> LeagueOdds, elo |-> LeagueRatings[1], picks |-> [w3 |-> TIE]],
     [odds |-> <<>>, elo |-> LeagueRatings[1], picks |-> [w2a |-> "n1"]],
     [odds |-> <<>>, elo |-> LeagueRatings[3], picks |-> <<>>],
     [odds |-> LeagueOdds, elo |-> LeagueRatings[3], picks |-> [w3 |-> "a2"]],
     [odds |-> <<>>, elo |-> LeagueRatings[4], picks |-> <<>>]>>

\* one trial is asked for, of the first call none as well
SimInputsLeague ==
    \E late \in BOOLEAN, n \in 0..1, c \in 1..Len(LeagueCalls) :
        /\ c > 1 => n = 1
        /\ SimSetup(LeagueTeams, LeagueGames(late), n, LeagueCalls[c].odds,
                    LeagueCalls[c].elo, LeagueCalls[c].picks)

\* the league of monteCarlo.test.ts: three teams of one division, the other
\* conference empty, all ratings 1500; earlier: GB has beaten CLE already
SimInputsOneConference ==
    \E n \in 0..MaxSims, earlier \in BOOLEAN,
       odds \in {<<>>, [g2 |-> (15 * ProbScale) \div 100]},
       picks \in {<<>>, [g1 |-> "CHI"]} :
        /\ earlier => (odds = <<>> /\ picks = <<>>)
        /\ SimSetup(<<Tm("CHI", "NFC", "North", RecNone, RecNone, RecNone),
                      Tm("GB", "NFC", "North",
                         IF earlier THEN <<1, 0, 0>> ELSE RecNone,
                         IF earlier THEN <<1, 0, 0>> ELSE RecNone,
                         IF earlier THEN <<1, 0, 0>> ELSE RecNone),
                      Tm("CLE", "NFC", "North",
                         IF earlier THEN <<0, 1, 0>> ELSE RecNone,
                         IF earlier THEN <<0, 1, 0>> ELSE RecNone,
                         IF earlier THEN <<0, 1, 0>> ELSE RecNone)>>,
                    <<Gm("g1", 1, "GB", "CHI", FALSE, ""),
                      Gm("g2", 2, "CLE", "CHI", FALSE, "")>>
                    \o (IF earlier THEN <<Gm("g0", 1, "GB", "CLE", TRUE, "GB")>>
                        ELSE <<>>),
                    n, odds, [t \in {"CHI", "GB", "CLE"} |-> Elo(1500)], picks)

\* the season is over: standings of seven teams and the finished games of
\* team A against X and Y (scheduleStrength tests); six teams share one
\* conference, so that conference has four non-winners
SimInputsStandings ==
    \E n \in 0..MaxSims,
       x \in {<<9, 1, 0>>, <<10, 7, 0>>},
       y \in {<<8, 8, 0>>, <<6, 11, 0>>},
       p \in {<<1, 1, 1>>, <<2, 1, 1>>, <<1, 2, 3>>, <<3, 2, 1>>},
       second \in {"", "A"}, yWinner \in {"A", "Y", ""} :
        /\ n > 1 => (p = <<3, 2, 1>> /\ second = "")
        /\ SimSetup(<<Tm("A", "AFC", "East",
                         <<1 + (IF yWinner = "A" THEN 1 ELSE 0)
                             + (IF second = "A" THEN 1 ELSE 0),
                           IF yWinner = "Y" THEN 1 ELSE 0,
                           IF yWinner = "" THEN 1 ELSE 0>>,
                         RecNone, RecNone),
                      Tm("X", "AFC", "East", x, RecNone, RecNone),
                      Tm("Y", "AFC", "East", y, RecNone, RecNone),
                      Tm("P", "AFC", "North", <<8 + p[1], 9 - p[1], 0>>, RecNone, RecNone),
                      Tm("Q", "AFC", "North", <<8 + p[2], 9 - p[2], 0>>, RecNone, RecNone),
                      Tm("R", "AFC", "North", <<8 + p[3], 9 - p[3], 0>>, RecNone, RecNone),
                      Tm("N", "NFC", "West", RecNone, RecNone, RecNone)>>,
                    <<Gm("ax", 1, "A", "X", TRUE, "A"),
                      Gm("ay", 2, "Y", "A", TRUE, yWinner)>>
                    \o (IF second = "" THEN <<>>
                        ELSE <<Gm("xa", 3, "X", "A", TRUE, second)>>),
                    n, <<>>,
                    [t \in {"A", "X", "Y", "P", "Q", "R", "N"} |-> Elo(1500)], <<>>)

\* the state of a sortTeams call that is not running
SortIdle ==
    /\ teams = <<>>
    /\ type = "division"
    /\ pc = "idle"
    /\ byWinPct = <<>>
    /\ i = 1
    /\ j = 1
    /\ result = <<>>
    /\ remaining = <<>>
    /\ ranked = <<>>
    /\ stack = <<>>
    /\ lastStep = NoStep
    /\ touched = {}
    /\ extractions = 0
    /\ draws = <<>>

SimInit ==
    /\ KalshiIdle
    /\ WorkerIdle
    /\ SortIdle
    /\ \/ SimInputsLeague
       \/ SimInputsOneConference
       \/ SimInputsStandings
    /\ statsMap = <<>>
    /\ gameResults = <<>>
    /\ simPc = "call"
    /\ sim = 0
    /\ simElo = <<>>
    /\ simWinsAgainst = <<>>
    /\ giPos = 1
    /\ madePlayoffs = <<>>
    /\ wonDivision = <<>>
    /\ madeWildcard = <<>>
    /\ wonFirstSeed = <<>>
    /\ gameHomeWins = <<>>
    /\ returned = NotReturned
    /\ randomCalls = 0
    /\ resolvedGames = <<>>
    /\ lastGame = NoGame
    /\ lastSeeding = NoSeeding

SimSpec == SimInit /\ [][SimNext]_vars

----------------------------------------------------------------------------
(* Restatements used by the properties, written from the schedule and the  *)
(* results directly                                                        *)

\* the played games between t and u
Meetings(t, u) ==
    {k \in 1..Len(allGames) :
        /\ {allGames[k].homeTeamId, allGames[k].awayTeamId} = {t, u}
        /\ ResultOf(allGames[k]) # ""}

WonBy(k, t) == ResultOf(allGames[k]) = t

\* t has played u and won every game against u
Beat(t, u) == Meetings(t, u) # {} /\ \A k \in Meetings(t, u) : WonBy(k, t)

StepName(st) == buildTiebreakerSteps(st.type)[st.stepIdx + 1]

\* the frame on top of the stack is about to run a step of the loop
AtStep == pc = "find" /\ stack # <<>> /\ top.phase = "steps" /\ LoopRuns(top)

----------------------------------------------------------------------------
----------------------------------------------------------------------------
(* C2: on a pool of three or more the head-to-head step is the sweep rule: *)
(* a candidate that played every other candidate and won all those games   *)
(* is the sole survivor; otherwise a candidate that played every other     *)
(* candidate and lost all those games is the only one removed; otherwise   *)
(* the pool is passed on unchanged and nobody is eliminated.               *)
SweepRule(pool) ==
    LET others(t) == Range(pool) \ {t}
        sweeper(t) == \A u \in others(t) : Beat(t, u)
        swept(t) == \A u \in others(t) : Beat(u, t)
    IN  IF \E t \in Range(pool) : sweeper(t) /\ \A u \in others(t) : ~sweeper(u)
        THEN <<CHOOSE t \in Range(pool) : sweeper(t)>>
        ELSE IF \E t \in Range(pool) : swept(t)
        THEN LET out == CHOOSE t \in Range(pool) : swept(t)
             IN  SelectSeq(pool, LAMBDA t : t # out)
        ELSE pool

C2_SweepOnlyH2H ==
    (lastStep.kind = "step" /\ StepName(lastStep) = "h2h" /\ Len(lastStep.pool) >= 3)
    => /\ lastStep.survivors = SweepRule(lastStep.pool)
       /\ lastStep.eliminated = (lastStep.survivors # lastStep.pool)

\* the cycle A beats B, B beats C, C beats A goes on unchanged to step 2
C2_Witness ==
    /\ lastStep.kind = "step"
    /\ StepName(lastStep) = "h2h"
    /\ lastStep.pool = <<"A", "B", "C">>
    /\ Beat("A", "B") /\ Beat("B", "C") /\ Beat("C", "A")
    /\ lastStep.survivors = <<"A", "B", "C">>
    /\ ~lastStep.eliminated
    /\ AtStep
    /\ top.stepIdx = 1
    /\ top.pool = <<"A", "B", "C">>

----------------------------------------------------------------------------
(* C3: the common-games step applies only when every candidate has played  *)
(* at least 4 games (repeat games counted) against the opponents common to *)
(* all candidates, the candidates excluded; otherwise it eliminates no one *)
(* and the next step follows; when it applies the survivors are exactly    *)
(* the candidates with the best win percentage in those games.             *)
\* teams outside the pool that every candidate is scheduled against
SharedOpponents(pool) ==
    {o \in {allGames[k].homeTeamId : k \in 1..Len(allGames)}
           \cup {allGames[k].awayTeamId : k \in 1..Len(allGames)} :
        /\ o \notin Range(pool)
        /\ \A t \in Range(pool) : \E k \in 1..Len(allGames) :
              {allGames[k].homeTeamId, allGames[k].awayTeamId} = {t, o}}

\* the played games of t against the shared opponents
SharedGames(t, pool) ==
    LET shared == SharedOpponents(pool)
    IN  {k \in 1..Len(allGames) :
            /\ ResultOf(allGames[k]) # ""
            /\ \E o \in shared :
                  {allGames[k].homeTeamId, allGames[k].awayTeamId} = {t, o}}

\* win percentage of t in its shared games, as <<2 * wins + ties, 2 * games>>
SharedPct(t, pool) ==
    LET games == SharedGames(t, pool)
    IN  <<2 * Cardinality({k \in games : WonBy(k, t)})
            + Cardinality({k \in games : WonBy(k, TIE)}),
          2 * Cardinality(games)>>

CommonApplies(pool) ==
    \A t \in Range(pool) : Cardinality(SharedGames(t, pool)) >= 4

----------------------------------------------------------------------------
(* C4: in a wildcard resolution every extraction first reduces the teams   *)
(* still remaining to one representative per division, chosen by the       *)
(* division procedure among that division's remaining candidates; only     *)
(* representatives enter the wildcard steps; after a representative is     *)
(* ranked and removed the next extraction derives that division's          *)
(* representative anew from the candidates that remain.                    *)
\* the teams the division procedure can select from pool, from step k on
RECURSIVE DivisionChoice(_, _)
DivisionChoice(pool, k) ==
    IF Len(pool) = 1 THEN {pool[1]}
    ELSE IF k >= Len(buildTiebreakerSteps("division")) THEN Range(pool)
    ELSE LET r == RunStep("division", k, pool)
         IN  IF r.eliminated THEN DivisionChoice(r.survivors, 0)
             ELSE DivisionChoice(pool, k + 1)

OnePerDivision(pool) ==
    \A a, b \in 1..Len(pool) : a # b => division[pool[a]] # division[pool[b]]

C4_WildcardPreStep ==
    /\ (pc = "find" /\ stack[1].type = "wildcard" /\ stack[1].phase \in {"check", "steps"})
       => /\ Range(stack[1].pool) \subseteq Range(remaining)
          /\ OnePerDivision(stack[1].pool)
    /\ (pc = "find" /\ stack[1].type = "wildcard" /\ stack[1].phase = "check")
       => \A t \in Range(remaining) :
             \E rep \in Range(stack[1].pool) :
                /\ division[rep] = division[t]
                /\ rep \in DivisionChoice(
                       SelectSeq(remaining, LAMBDA u : division[u] = division[t]), 0)
    /\ (lastStep.kind # "none" /\ lastStep.type = "wildcard")
       => OnePerDivision(lastStep.pool)

\* A and B share a division, C is in another one and A beat B: A was ranked
\* first, then B entered the wildcard steps as its division's representative
\* and was ranked second
C4_Witness ==
    /\ type = "wildcard"
    /\ byWinPct = <<"A", "B", "C">>
    /\ division["A"] = division["B"]
    /\ division["C"] # division["A"]
    /\ Beat("A", "B")
    /\ pc = "resolve"
    /\ ranked = <<"A", "B">>
    /\ remaining = <<"C">>
    /\ lastStep.type = "wildcard"
    /\ lastStep.pool = <<"B", "C">>
    /\ lastStep.survivors = <<"B">>

----------------------------------------------------------------------------
(* C5: two tied teams resolved with type 'division' are ordered by the     *)
(* first criterion on which they differ, in the order head-to-head,        *)
(* division record, common games (when applicable), conference record,     *)
(* SOV, SOS; a later criterion never overrides an earlier one.             *)
\* head-to-head percentage of t against u, from the results
PairPct(t, u) ==
    IF Meetings(t, u) = {} THEN <<0, 1>>
    ELSE <<2 * Cardinality({k \in Meetings(t, u) : WonBy(k, t)})
             + Cardinality({k \in Meetings(t, u) : WonBy(k, TIE)}),
           2 * Cardinality(Meetings(t, u))>>

RecordPct(w, l, tt) == IF w + l + tt = 0 THEN <<0, 1>> ELSE <<2 * w + tt, 2 * (w + l + tt)>>

\* the value of criterion c for team t when tied with u
Criterion(c, t, u) ==
    CASE c = "h2h"    -> PairPct(t, u)
      [] c = "div"    -> RecordPct(statsMap[t].divWins, statsMap[t].divLosses,
                                   statsMap[t].divTies)
      [] c = "common" -> IF CommonApplies(<<t, u>>) THEN SharedPct(t, <<t, u>>)
                         ELSE <<0, 1>>
      [] c = "conf"   -> RecordPct(statsMap[t].confWins, statsMap[t].confLosses,
                                   statsMap[t].confTies)
      [] c = "sov"    -> statsMap[t].sov
      [] c = "sos"    -> statsMap[t].sos

\* t is ahead of u on the first criterion of list on which they differ
WinsBy(list, t, u) ==
    \E k \in 1..Len(list) :
        /\ RLess(Criterion(list[k], u, t), Criterion(list[k], t, u))
        /\ \A m \in 1..(k - 1) : REq(Criterion(list[m], u, t), Criterion(list[m], t, u))

OverallPct(t) == RecordPct(statsMap[t].wins, statsMap[t].losses, statsMap[t].ties)

\* t and u are tied with each other and with no other team of the list
TiedPair(t, u) ==
    /\ t \in Range(teams) /\ u \in Range(teams) /\ t # u
    /\ REq(OverallPct(t), OverallPct(u))
    /\ \A x \in Range(teams) \ {t, u} : ~REq(OverallPct(x), OverallPct(t))

Position(s, t) == CHOOSE k \in 1..Len(s) : s[k] = t

Before(s, t, u) == Position(s, t) < Position(s, u)

DivisionOrder == <<"h2h", "div", "common", "conf", "sov", "sos">>

WildcardOrder == <<"h2h", "conf", "common", "sov", "sos">>

C5_DivisionPairOrder ==
    (pc = "done" /\ type = "division")
    => \A t, u \in Range(teams) :
          (TiedPair(t, u) /\ WinsBy(DivisionOrder, t, u)) => Before(result, t, u)

\* A has the better division record, B the better SOS, everything before
\* the division record is level: A is ranked first
C5_Witness ==
    /\ pc = "done"
    /\ type = "division"
    /\ teams = <<"A", "B">>
    /\ TiedPair("A", "B")
    /\ REq(Criterion("h2h", "A", "B"), Criterion("h2h", "B", "A"))
    /\ RLess(Criterion("div", "B", "A"), Criterion("div", "A", "B"))
    /\ RLess(Criterion("sos", "A", "B"), Criterion("sos", "B", "A"))
    /\ result = <<"A", "B">>

----------------------------------------------------------------------------
(* C6: two tied teams of different divisions resolved with type 'wildcard' *)
(* are ordered by the first criterion on which they differ, in the order   *)
(* head-to-head, conference record, common games (when applicable), SOV,   *)
(* SOS; conference record comes before common games and the division       *)
(* record is never consulted.                                              *)
C6_WildcardPairOrder ==
    /\ (pc = "done" /\ type = "wildcard")
       => \A t, u \in Range(teams) :
             (TiedPair(t, u) /\ division[t] # division[u] /\ WinsBy(WildcardOrder, t, u))
             => Before(result, t, u)
    /\ (lastStep.kind = "step" /\ lastStep.type = "wildcard") => StepName(lastStep) # "div"

\* B has the better conference record, A the better record in four common
\* games and the better division record: B is ranked first
C6_Witness ==
    /\ pc = "done"
    /\ type = "wildcard"
    /\ teams = <<"A", "B">>
    /\ TiedPair("A", "B")
    /\ division["A"] # division["B"]
    /\ REq(Criterion("h2h", "A", "B"), Criterion("h2h", "B", "A"))
    /\ RLess(Criterion("conf", "A", "B"), Criterion("conf", "B", "A"))
    /\ CommonApplies(<<"A", "B">>)
    /\ RLess(Criterion("common", "B", "A"), Criterion("common", "A", "B"))
    /\ result = <<"B", "A">>

----------------------------------------------------------------------------
(* C7: sortTeams returns every input team exactly once, for either type,   *)
(* whatever ties, sweeps, restarts or coin tosses occur; on the way no     *)
(* team is lost or held twice by the output, the ranked list, the teams    *)
(* remaining and the teams not reached yet.                                *)
IsPermutation(s, t) ==
    /\ Len(s) = Len(t)
    /\ \A x \in Range(t) : Cardinality({k \in 1..Len(s) : s[k] = x}) = 1

\* the part of byWinPct that sortTeams has not grouped yet
NotReached ==
    CASE pc = "loop" -> SubSeq(byWinPct, i, Len(byWinPct))
      [] pc \in {"resolve", "find"} -> SubSeq(byWinPct, j, Len(byWinPct))
      [] OTHER -> <<>>

C7_EveryTeamOnce ==
    /\ pc # "start" => IsPermutation(result \o ranked \o remaining \o NotReached, teams)
    /\ pc = "done" => IsPermutation(result, teams)

\* three tied teams ranked with the help of a coin toss
C7_Witness ==
    /\ pc = "done"
    /\ Len(teams) = 3
    /\ Len(TiedGroup(1)) = 3
    /\ lastStep.kind = "coin"
    /\ Range(result) = {"A", "B", "C"}

----------------------------------------------------------------------------
(* C8: in the returned list no team is ahead of a team with a strictly     *)
(* higher overall win percentage (a tie counts as half a win), and a team  *)
(* that is alone at its win percentage is never handed to a tiebreak step. *)
Alone(t) == \A x \in Range(teams) \ {t} : ~REq(OverallPct(x), OverallPct(t))

C8_WinPctOrder ==
    /\ pc = "done"
       => \A a, b \in 1..Len(result) :
             a < b => RLeq(OverallPct(result[b]), OverallPct(result[a]))
    /\ \A t \in Range(teams) : Alone(t) => t \notin touched
    /\ (lastStep.kind # "none")
       => \A t \in Range(lastStep.pool) : ~Alone(t)

\* the first team of the input has the lowest percentage and is alone at
\* it; the other two are tied, are resolved by tiebreak and come first
C8_Witness ==
    /\ pc = "done"
    /\ Len(teams) = 3
    /\ RLess(OverallPct(teams[1]), OverallPct(teams[2]))
    /\ REq(OverallPct(teams[2]), OverallPct(teams[3]))
    /\ statsMap[teams[2]].ties # statsMap[teams[3]].ties
    /\ result[3] = teams[1]
    /\ touched = {teams[2], teams[3]}

----------------------------------------------------------------------------
(* C9: the random fallback is reached only after a full pass over all the  *)
(* steps of the type's list has left a pool of more than one candidate     *)
(* with no elimination; it returns exactly one team, a member of that      *)
(* pool, and every member can be the one selected; any other step that     *)
(* returns a single team returns the team strictly best on its criterion.  *)
CoinPending == pc = "find" /\ stack # <<>> /\ top.phase = "steps" /\ ~LoopRuns(top)

\* the single survivor of step st is strictly ahead of every team it removed
StrictlyBest(st) ==
    LET w == st.survivors[1]
    IN  \A u \in Range(st.pool) \ {w} :
           CASE StepName(st) = "h2h" ->
                   IF Len(st.pool) >= 3 THEN Beat(w, u)
                   ELSE RLess(PairPct(u, w), PairPct(w, u))
             [] StepName(st) = "common" ->
                   /\ CommonApplies(st.pool)
                   /\ RLess(SharedPct(u, st.pool), SharedPct(w, st.pool))
             [] OTHER ->
                   RLess(Criterion(StepName(st), u, w), Criterion(StepName(st), w, u))

----------------------------------------------------------------------------
(* C10: sortTeams returns the empty list for the empty input and, for      *)
(* every input whose teams all have a stats entry, runs to its end without *)
(* an error: at every position short of the end the code has a statement   *)
(* to run on a defined value (a frame to work on, a non-empty pool to pick *)
(* from, a non-empty list of winners to push), after k extractions of      *)
(* resolveTiedGroup at least k teams have left the remaining pool, the     *)
(* step loop has run at most (steps * teams eliminated + current step)     *)
(* times, and exhausting the steps ends in the random fallback.            *)
C10_Terminates ==
    /\ pc \in {"start", "loop", "resolve", "find", "done"}
    /\ pc = "find"
       => /\ stack # <<>>
          /\ top.phase \in {"pre", "check", "steps"}
          /\ top.phase = "check" => Len(top.pool) >= 1
          /\ top.phase = "steps" => Len(top.pool) >= 2
    /\ lastStep.kind \in {"step", "coin"} => Len(lastStep.survivors) >= 1
    /\ (pc = "done" /\ teams = <<>>) => result = <<>>
    /\ (pc = "find" /\ top.phase = "steps"
          /\ top.stepIdx = Len(buildTiebreakerSteps(top.type)))
       => ENABLED CoinToss
    /\ pc = "resolve" => Len(remaining) + extractions <= j - i
    /\ pc = "find" => Len(remaining) + extractions - 1 <= j - i
    /\ pc = "find"
       => top.iterations <= Len(buildTiebreakerSteps(top.type))
                               * (Len(remaining) - Len(top.pool)) + top.stepIdx
    /\ pc \in {"loop", "resolve", "find"} => (i <= j /\ j <= Len(byWinPct) + 1)
    /\ pc \in {"resolve", "find"} => i < j

\* a tied group of three has been resolved in two extractions and sortTeams
\* has returned
C10_Witness ==
    /\ pc = "done"
    /\ Len(teams) = 3
    /\ Len(TiedGroup(1)) = 3
    /\ Len(result) = 3
    /\ lastStep.kind = "step"
    /\ Len(lastStep.pool) = 2

----------------------------------------------------------------------------
(* C11: the ordering sortTeams returns is determined by its inputs and by  *)
(* the sequence of random values the coin tosses received: it is the value *)
(* of one function of both, so two calls that agree on them agree on the   *)
(* ordering; a run in which no coin toss happened has drawn no random      *)
(* value, so its ordering is that function of the inputs alone.            *)
C11_SameRandomSameOrder ==
    /\ pc = "done"
       => /\ result = sortTeams(teams, type, draws).teams
          /\ sortTeams(teams, type, draws).rnds = <<>>
    /\ (pc = "done" /\ draws = <<>>)
       => result = sortTeams(teams, type, <<1, 0>>).teams
    /\ lastStep.kind = "coin" => draws # <<>>

\* three fully tied teams, two tosses: the third team, then the second of
\* the two that were left
C11_Witness ==
    /\ pc = "done"
    /\ teams = <<"A", "B", "C">>
    /\ draws = <<2, 1>>
    /\ result = <<"C", "B", "A">>

----------------------------------------------------------------------------
(* Restatements used by the properties of runSimulation, written from the  *)
(* arguments, the schedule and the results directly                        *)

\* the sum of f[x] over the elements x of the set S
RECURSIVE SumOver(_, _)
SumOver(S, f) ==
    IF S = {} THEN 0
    ELSE LET x == CHOOSE y \in S : TRUE
         IN  f[x] + SumOver(S \ {x}, f)

\* the games of the schedule, played or not, between t and u
GamesAgainst(t, u) ==
    Cardinality({k \in 1..Len(allGames) :
                    {allGames[k].homeTeamId, allGames[k].awayTeamId} = {t, u}})

\* the games t has won against u according to the results
WinsAgainst(t, u) == Cardinality({k \in Meetings(t, u) : WonBy(k, t)})

\* value is the combined record of the teams u, each counted mult[u] times:
\* (sum of wins + ties / 2) / (sum of games), and 0 when no game is summed
IsCombinedRatio(value, mult) ==
    LET all == DOMAIN statsMap
        won == SumOver(all, [u \in all |->
                   mult[u] * (2 * statsMap[u].wins + statsMap[u].ties)])
        games == SumOver(all, [u \in all |->
                     mult[u] * (statsMap[u].wins + statsMap[u].losses
                                + statsMap[u].ties)])
    IN  /\ value[2] > 0
        /\ IF games = 0 THEN value[1] = 0
           ELSE value[1] * 2 * games = won * value[2]

\* team A has one game against X, who is 9-1, one against Y, who is 8-8,
\* and no other game
NineOneAndEightEight ==
    /\ {"A", "X", "Y"} \subseteq DOMAIN statsMap
    /\ GamesAgainst("A", "X") = 1
    /\ GamesAgainst("A", "Y") = 1
    /\ \A u \in DOMAIN statsMap \ {"X", "Y"} : GamesAgainst("A", u) = 0
    /\ <<statsMap["X"].wins, statsMap["X"].losses, statsMap["X"].ties>> = <<9, 1, 0>>
    /\ <<statsMap["Y"].wins, statsMap["Y"].losses, statsMap["Y"].ties>> = <<8, 8, 0>>

----------------------------------------------------------------------------
(* C12: after computeScheduleStrength every team's SOS is the combined     *)
(* record of the opponents on its schedule, one entry per game (sum of     *)
(* their wins plus half their ties over the sum of their games), and its   *)
(* SOV the same over the opponents it has beaten, one entry per win; a     *)
(* value is 0 when no game is summed; with opponents at 9-1 and 8-8 the    *)
(* SOS is 17/26 and not the average 0.70 of their percentages.             *)
C12_CombinedRatio ==
    simPc = "seeding"
    => /\ \A t \in DOMAIN statsMap :
             /\ IsCombinedRatio(statsMap[t].sos,
                                [u \in DOMAIN statsMap |-> GamesAgainst(t, u)])
             /\ IsCombinedRatio(statsMap[t].sov,
                                [u \in DOMAIN statsMap |-> WinsAgainst(t, u)])
       /\ NineOneAndEightEight
          => /\ REq(statsMap["A"].sos, <<17, 26>>)
             /\ ~REq(statsMap["A"].sos, <<7, 10>>)

\* the 9-1 and 8-8 schedule, A has beaten X only, and N has no game at all
C12_Witness ==
    /\ simPc = "seeding"
    /\ NineOneAndEightEight
    /\ REq(statsMap["A"].sos, <<17, 26>>)
    /\ WinsAgainst("A", "X") = 1
    /\ WinsAgainst("A", "Y") = 0
    /\ REq(statsMap["A"].sov, <<9, 10>>)
    /\ statsMap["N"].sos[1] = 0

----------------------------------------------------------------------------
\* the game of the schedule with this id
GameOf(id) == allGames[CHOOSE k \in 1..Len(allGames) : allGames[k].id = id]

\* the ids of the games that were not finished when runSimulation was called
Unplayed == {allGames[k].id : k \in {q \in 1..Len(allGames) : ~allGames[q].isFinished}}

\* the games among the given ones in which team t plays
GamesOfTeam(ids, t) ==
    {id \in ids : t \in {GameOf(id).homeTeamId, GameOf(id).awayTeamId}}

\* a trial is under way: its games are being resolved or have all been
InTrial == simPc \in {"games", "seeding"}

(* C13: within a trial the unplayed games are resolved in ascending week   *)
(* order whatever their order in the input list: a game is resolved only   *)
(* when every unplayed game of an earlier week has been, and a resolved    *)
(* game has its outcome in the results map, is counted in both teams'      *)
(* records, and has changed the ratings the next game reads.               *)
C13_WeekOrder ==
    InTrial
    => /\ \A q \in 1..Len(resolvedGames) : \A r \in 1..(q - 1) :
             /\ GameOf(resolvedGames[r]).week <= GameOf(resolvedGames[q]).week
             /\ resolvedGames[r] # resolvedGames[q]
       /\ Range(resolvedGames) \subseteq Unplayed
       /\ \A id \in Range(resolvedGames) : \A earlier \in Unplayed :
             GameOf(earlier).week < GameOf(id).week => earlier \in Range(resolvedGames)
       /\ simPc = "seeding" => Range(resolvedGames) = Unplayed
       /\ \A id \in Range(resolvedGames) : id \in DOMAIN gameResults
       /\ \A k \in 1..Len(initialTeams) :
             LET t == initialTeams[k]
             IN  statsMap[t.id].wins + statsMap[t.id].losses + statsMap[t.id].ties
                 = t.wins + t.losses + t.ties
                   + Cardinality(GamesOfTeam(Range(resolvedGames), t.id))
       /\ resolvedGames # <<>>
          => /\ lastGame.id = resolvedGames[Len(resolvedGames)]
             /\ lastGame.homeWins
                => /\ simElo[GameOf(lastGame.id).homeTeamId] > lastGame.homeElo
                   /\ simElo[GameOf(lastGame.id).awayTeamId] < lastGame.awayElo
             /\ (~lastGame.homeWins /\ ~lastGame.isTie)
                => /\ simElo[GameOf(lastGame.id).homeTeamId] < lastGame.homeElo
                   /\ simElo[GameOf(lastGame.id).awayTeamId] > lastGame.awayElo

\* the week 3 game comes first in the input list and is resolved last
C13_Witness ==
    /\ simPc = "games"
    /\ Len(allGames) = 4
    /\ allGames[1].week = 3
    /\ ~allGames[1].isFinished
    /\ resolvedGames = <<"w2a", "w2b", "w3">>

----------------------------------------------------------------------------
\* the forced outcome of a game, "" when there is none
Forced(id) == IF id \in DOMAIN userPicks THEN userPicks[id] ELSE ""

\* the home team's win probability by the rating model, with the home-field
\* offset, limited to 1 % .. 99 %
RatingModelProb(homeElo, awayElo) ==
    LET raw == eloDiffToWinProb(homeElo - awayElo + HOME_FIELD_ADVANTAGE * EloUnit)
    IN  IF raw < ProbScale \div 100 THEN ProbScale \div 100
        ELSE IF raw > ProbScale - ProbScale \div 100
             THEN ProbScale - ProbScale \div 100
        ELSE raw

\* the unplayed games without a forced outcome among the given ones
Unforced(ids) == {id \in ids : Forced(id) = ""}

(* C14: a game with a forced outcome takes that outcome (home win, away    *)
(* win or tie) in every trial, without a random value being drawn and      *)
(* whatever the market odds and the ratings are, so that its simulated     *)
(* home win probability is 1 when the home team was forced and 0           *)
(* otherwise; a game without a forced outcome draws exactly one random     *)
(* value and is decided against the market odds of the game when there     *)
(* are any, else against the rating model with the home-field offset.      *)
C14_OutcomePrecedence ==
    /\ (InTrial /\ resolvedGames # <<>>)
       => LET g == GameOf(lastGame.id)
              used == IF g.id \in DOMAIN oddsMap THEN oddsMap[g.id]
                      ELSE RatingModelProb(lastGame.homeElo, lastGame.awayElo)
          IN  IF Forced(g.id) # ""
              THEN /\ ~lastGame.drew
                   /\ gameResults[g.id] = Forced(g.id)
                   /\ lastGame.isTie = (Forced(g.id) = TIE)
                   /\ lastGame.homeWins = (Forced(g.id) = g.homeTeamId)
              ELSE /\ lastGame.drew
                   /\ lastGame.winProb = used
                   /\ lastGame.isTie = (lastGame.rand < TIE_PROB_E4)
                   /\ lastGame.homeWins
                        = (/\ lastGame.rand >= TIE_PROB_E4
                           /\ (lastGame.rand - TIE_PROB_E4) * ProbScale
                                < used * (ProbScale - TIE_PROB_E4))
                   /\ gameResults[g.id]
                        = (IF lastGame.isTie THEN TIE
                           ELSE IF lastGame.homeWins THEN g.homeTeamId
                           ELSE g.awayTeamId)
    /\ InTrial
       => randomCalls = sim * Cardinality(Unforced(Unplayed))
                        + Cardinality(Unforced(Range(resolvedGames)))
    /\ simPc \in {"loop", "done"}
       => randomCalls = sim * Cardinality(Unforced(Unplayed))
    /\ \A id \in Unplayed \ Unforced(Unplayed) :
          /\ InTrial /\ id \in Range(resolvedGames)
             => gameResults[id] = Forced(id)
          /\ (returned.kind = "returned" /\ numSimulations > 0)
             => returned.simulatedOdds[id]
                  = <<IF Forced(id) = GameOf(id).homeTeamId THEN numSimulations ELSE 0,
                      numSimulations>>

\* the home team of the week 3 game is forced although the market gives it
\* 15 %; the two other games drew one value each
C14_Witness ==
    /\ simPc = "done"
    /\ returned.kind = "returned"
    /\ Forced("w3") = "a2"
    /\ "w3" \in DOMAIN oddsMap
    /\ oddsMap["w3"] < ProbScale \div 2
    /\ returned.simulatedOdds["w3"] = <<1, 1>>
    /\ randomCalls = 2
    /\ gameResults["w2a"] = "n1"
    /\ RatingModelProb(kalshiEloMap["a1"], kalshiEloMap["n1"]) > ProbScale \div 2

----------------------------------------------------------------------------
\* the change of three counters of team t by the game resolved last
Delta(t, won, lost, tied) ==
    <<statsMap[t][won] - lastGame.before[t][won],
      statsMap[t][lost] - lastGame.before[t][lost],
      statsMap[t][tied] - lastGame.before[t][tied]>>

OverallDelta(t) == Delta(t, "wins", "losses", "ties")

ConferenceDelta(t) == Delta(t, "confWins", "confLosses", "confTies")

DivisionDelta(t) == Delta(t, "divWins", "divLosses", "divTies")

\* the Team record of the standings with this id
TeamOf(id) == initialTeams[CHOOSE k \in 1..Len(initialTeams) : initialTeams[k].id = id]

(* C15: a simulated game adds exactly one result to the overall record of  *)
(* each of its two teams (a win and a loss, or two ties); their conference *)
(* records change, by the same result, exactly when both teams are in the  *)
(* same conference, and their division records exactly when they are in    *)
(* the same conference and the same division; no other team changes.      *)
C15_ScopedCounters ==
    (InTrial /\ resolvedGames # <<>>)
    => LET g == GameOf(lastGame.id)
           h == g.homeTeamId
           a == g.awayTeamId
           sameConf == TeamOf(h).conference = TeamOf(a).conference
           sameDiv == sameConf /\ TeamOf(h).division = TeamOf(a).division
       IN  /\ OverallDelta(h) \in {<<1, 0, 0>>, <<0, 1, 0>>, <<0, 0, 1>>}
           /\ OverallDelta(a) = <<OverallDelta(h)[2], OverallDelta(h)[1], OverallDelta(h)[3]>>
           /\ OverallDelta(h) = <<1, 0, 0>> <=> gameResults[g.id] = h
           /\ OverallDelta(h) = <<0, 0, 1>> <=> gameResults[g.id] = TIE
           /\ \A t \in {h, a} :
                 /\ ConferenceDelta(t) = IF sameConf THEN OverallDelta(t) ELSE <<0, 0, 0>>
                 /\ DivisionDelta(t) = IF sameDiv THEN OverallDelta(t) ELSE <<0, 0, 0>>
           /\ \A t \in DOMAIN statsMap \ {h, a} :
                 /\ OverallDelta(t) = <<0, 0, 0>>
                 /\ ConferenceDelta(t) = <<0, 0, 0>>
                 /\ DivisionDelta(t) = <<0, 0, 0>>

\* a1 of the AFC East has beaten n1 of the NFC East: neither conference
\* nor division records have changed
C15_Witness ==
    /\ simPc = "games"
    /\ lastGame.id = "w2a"
    /\ TeamOf("a1").division = TeamOf("n1").division
    /\ TeamOf("a1").conference # TeamOf("n1").conference
    /\ OverallDelta("a1") = <<1, 0, 0>>
    /\ OverallDelta("n1") = <<0, 1, 0>>
    /\ DivisionDelta("a1") = <<0, 0, 0>>
    /\ ConferenceDelta("n1") = <<0, 0, 0>>

----------------------------------------------------------------------------
\* the finished games of the schedule that have a winner (indices)
FinishedWithWinner ==
    {k \in 1..Len(allGames) : allGames[k].isFinished /\ allGames[k].winnerId # ""}

\* the number of entries u in the list s
Occurrences(s, u) == Cardinality({k \in 1..Len(s) : s[k] = u})

\* the per-trial state is the one derived from the arguments alone
FreshTrialState ==
    /\ \A k \in 1..Len(initialTeams) :
          LET t == initialTeams[k]
              st == statsMap[t.id]
          IN  /\ <<st.wins, st.losses, st.ties>> = <<t.wins, t.losses, t.ties>>
              /\ <<st.divWins, st.divLosses, st.divTies>>
                   = <<t.divisionWins, t.divisionLosses, t.divisionTies>>
              /\ <<st.confWins, st.confLosses, st.confTies>>
                   = <<t.conferenceWins, t.conferenceLosses, t.conferenceTies>>
              /\ st.sos[1] = 0
              /\ st.sov[1] = 0
              /\ simElo[t.id] = kalshiEloMap[t.id]
              /\ \A m \in 1..Len(initialTeams) :
                    Occurrences(simWinsAgainst[t.id], initialTeams[m].id)
                      = Cardinality({q \in FinishedWithWinner :
                            /\ allGames[q].winnerId = t.id
                            /\ {allGames[q].homeTeamId, allGames[q].awayTeamId}
                                 = {t.id, initialTeams[m].id}})
    /\ DOMAIN statsMap = {initialTeams[k].id : k \in 1..Len(initialTeams)}
    /\ DOMAIN gameResults = {allGames[k].id : k \in FinishedWithWinner}
    /\ \A k \in FinishedWithWinner : gameResults[allGames[k].id] = allGames[k].winnerId

(* C16: at the start of every trial the counters are those of the          *)
(* standings, the ratings are the seed ratings, the defeated-opponents     *)
(* lists are those of the finished games and the results map holds the     *)
(* finished games only, whatever earlier trials did; during a trial the    *)
(* results map holds, besides the finished games, only games resolved in   *)
(* this trial.                                                             *)
C16_TrialsIndependent ==
    /\ (simPc = "games" /\ resolvedGames = <<>>) => FreshTrialState
    /\ InTrial
       => DOMAIN gameResults
            = {allGames[k].id : k \in FinishedWithWinner} \cup Range(resolvedGames)

\* the second trial starts after a first one in which the home team won g1
\* and ratings and counters moved; GB's earlier win over CLE is there again
C16_Witness ==
    /\ simPc = "games"
    /\ resolvedGames = <<>>
    /\ sim = 1
    /\ "g1" \in DOMAIN gameHomeWins
    /\ gameHomeWins["g1"] = 1
    /\ randomCalls = 2
    /\ DOMAIN gameResults = {"g0"}
    /\ simWinsAgainst["GB"] = <<"CLE">>
    /\ statsMap["GB"].wins = 1
    /\ FreshTrialState

----------------------------------------------------------------------------
\* the teams of a conference, and of one of its divisions, in the order of
\* the standings
InConference(conf) ==
    SelectSeq([k \in 1..Len(initialTeams) |-> initialTeams[k].id],
              LAMBDA t : TeamOf(t).conference = conf)

InDivision(conf, d) == SelectSeq(InConference(conf), LAMBDA t : TeamOf(t).division = d)

DivisionNames == <<"North", "South", "East", "West">>

\* the non-winners of a conference as the wildcard pool lists them: division
\* by division, each division's non-winners in 'division' ranking; toss[k]
\* is the value a coin toss among the non-winners of division k receives
RECURSIVE NonWinnerPool(_, _, _, _)
NonWinnerPool(conf, winners, toss, k) ==
    IF k > Len(DivisionNames) THEN <<>>
    ELSE sortTeams(SelectSeq(InDivision(conf, DivisionNames[k]),
                             LAMBDA t : t \notin Range(winners)),
                   "division", <<toss[k]>>).teams
         \o NonWinnerPool(conf, winners, toss, k + 1)

\* sd is a correct seeding of the conference for the standings of the trial
IsSeeding(conf, sd) ==
    LET divs == {d \in Range(DivisionNames) : InDivision(conf, d) # <<>>}
        winnerOf(d) == CHOOSE w \in Range(sd.winners) : TeamOf(w).division = d
        named == SelectSeq(DivisionNames, LAMBDA d : d \in divs)
        inOrder == [k \in 1..Len(named) |-> winnerOf(named[k])]
        nonWinners == Range(InConference(conf)) \ Range(sd.winners)
    IN  /\ Len(sd.winners) = Cardinality(divs)
        /\ Range(sd.winners) \subseteq Range(InConference(conf))
        /\ \A d \in divs :
              /\ Cardinality({k \in 1..Len(sd.winners) :
                                 TeamOf(sd.winners[k]).division = d}) = 1
              /\ \E s \in TossStreams :
                    sortTeams(InDivision(conf, d), "division", s).teams[1] = winnerOf(d)
        /\ \E s \in TossStreams : sortTeams(inOrder, "wildcard", s).teams = sd.winners
        /\ sd.firstSeed = IF sd.winners = <<>> THEN "" ELSE sd.winners[1]
        /\ Range(sd.wildcards) \cap Range(sd.winners) = {}
        /\ Range(sd.wildcards) \subseteq nonWinners
        /\ Cardinality(Range(sd.wildcards)) = Len(sd.wildcards)
        /\ Len(sd.wildcards) = IF Cardinality(nonWinners) < 3
                                THEN Cardinality(nonWinners) ELSE 3
        /\ \E toss \in [1..Len(DivisionNames) -> 0..1], s \in TossStreams :
              LET ranking == sortTeams(NonWinnerPool(conf, sd.winners, toss, 1),
                                       "wildcard", s).teams
              IN  sd.wildcards = SubSeq(ranking, 1, Len(sd.wildcards))

(* C17: in every trial and for each conference, every non-empty division   *)
(* has exactly one division winner, the first team of its 'division'       *)
(* ranking; the wildcards are the first three teams of the 'wildcard'      *)
(* ranking of all non-winners of the conference; the top seed is the first *)
(* team of the 'wildcard' ranking of the division winners; no team is both *)
(* a division winner and a wildcard.                                       *)
C17_Seeding ==
    (simPc \in {"loop", "done"} /\ sim > 0)
    => /\ IsSeeding("AFC", lastSeeding.afc)
       /\ IsSeeding("NFC", lastSeeding.nfc)

\* six AFC teams in two divisions: X and P win them, X is the top seed; of
\* the four others Q, R and Y are the wildcards (Y has beaten A, with whom
\* it is level), A is left out; N alone is the NFC
C17_Witness ==
    /\ simPc = "loop"
    /\ sim = 1
    /\ Len(InConference("AFC")) = 6
    /\ lastSeeding.afc.winners = <<"X", "P">>
    /\ lastSeeding.afc.firstSeed = "X"
    /\ lastSeeding.afc.wildcards = <<"Q", "R", "Y">>
    /\ REq(OverallPct("A"), OverallPct("Y"))
    /\ lastSeeding.nfc.winners = <<"N">>
    /\ lastSeeding.nfc.wildcards = <<>>

----------------------------------------------------------------------------
\* some team of the standings has no seed rating, or there is no rating
RatingMissing ==
    \/ kalshiEloMap = <<>>
    \/ \E k \in 1..Len(initialTeams) : initialTeams[k].id \notin DOMAIN kalshiEloMap

\* no result counter has been incremented
NothingCounted ==
    /\ \A t \in DOMAIN madePlayoffs : madePlayoffs[t] = 0
    /\ \A t \in DOMAIN wonDivision : wonDivision[t] = 0
    /\ \A t \in DOMAIN madeWildcard : madeWildcard[t] = 0
    /\ \A t \in DOMAIN wonFirstSeed : wonFirstSeed[t] = 0
    /\ \A id \in DOMAIN gameHomeWins : gameHomeWins[id] = 0

\* no trial has been started
NoTrialRun ==
    /\ sim = 0
    /\ randomCalls = 0
    /\ resolvedGames = <<>>
    /\ statsMap = <<>>
    /\ gameResults = <<>>
    /\ simElo = <<>>
    /\ NothingCounted

----------------------------------------------------------------------------
(* C19: when the requested number of trials is zero, runSimulation fails   *)
(* with an error before any simulation work, and returns neither per-team  *)
(* results nor per-game odds.                                              *)
C19_ZeroTrialsFail ==
    numSimulations = 0
    => /\ simPc \in {"call", "done"}
       /\ simPc = "done" => returned.kind = "threw"
       /\ returned.kind # "returned"

----------------------------------------------------------------------------
\* the counters of the teams of one conference
CountedFor(conf) ==
    {madePlayoffs[t] + wonDivision[t] + madeWildcard[t] + wonFirstSeed[t] :
        t \in {id \in DOMAIN madePlayoffs : teamById(id).conference = conf}}

\* every team of one conference has made the playoffs in some trial
AllMadePlayoffs(conf) ==
    \A k \in 1..Len(InConference(conf)) : madePlayoffs[InConference(conf)[k]] > 0

\* conferences that have no team
EmptyConferences == {conf \in {"AFC", "NFC"} : InConference(conf) = <<>>}

(* C20 as stated: when a conference has no team, runSimulation fails the   *)
(* whole call and never returns results computed for the other conference. *)
C20_EmptyConferenceFails ==
    EmptyConferences # {}
    => /\ simPc \in {"call", "done"}
       /\ returned.kind # "returned"

(* C20: a conference without teams does not fail the call. When every team *)
(* has a rating the call runs its trials and returns; in every trial the   *)
(* empty conference is seeded with no division winner, no wildcard and no  *)
(* top seed, and the other conference is seeded as usual.                  *)
C20_EmptyConferenceTolerated ==
    (EmptyConferences # {} /\ ~RatingMissing)
    => /\ returned.kind # "threw"
       /\ simPc = "done" => /\ returned.kind = "returned"
                            /\ sim = numSimulations
                            /\ Len(returned.teamResults) = Len(initialTeams)
       /\ (simPc \in {"loop", "done"} /\ sim > 0)
          => /\ "AFC" \in EmptyConferences
                => lastSeeding.afc = [winners |-> <<>>, wildcards |-> <<>>, firstSeed |-> ""]
             /\ "NFC" \in EmptyConferences
                => lastSeeding.nfc = [winners |-> <<>>, wildcards |-> <<>>, firstSeed |-> ""]
             /\ "AFC" \notin EmptyConferences
                => /\ Len(lastSeeding.afc.winners) > 0
                   /\ lastSeeding.afc.firstSeed = lastSeeding.afc.winners[1]
             /\ "NFC" \notin EmptyConferences
                => /\ Len(lastSeeding.nfc.winners) > 0
                   /\ lastSeeding.nfc.firstSeed = lastSeeding.nfc.winners[1]

\* two trials of a league whose three teams are all in one conference
C20_Witness ==
    /\ EmptyConferences = {"AFC"}
    /\ simPc = "done"
    /\ returned.kind = "returned"
    /\ numSimulations = 2
    /\ Len(returned.teamResults) = 3
    /\ AllMadePlayoffs("NFC")

----------------------------------------------------------------------------
\* the win probability of a team by the rating model: the logistic curve
\* of its rating lead, the home-field offset added for the home team and
\* subtracted for the visitor, limited to 1 % .. 99 %
ModelProb(teamElo, opponentElo, atHome) ==
    LET offset == IF atHome THEN HOME_FIELD_ADVANTAGE ELSE -HOME_FIELD_ADVANTAGE
        raw == eloDiffToWinProb(teamElo - opponentElo + offset * EloUnit)
        low == ProbScale \div 100
    IN  IF raw < low THEN low ELSE IF raw > ProbScale - low THEN ProbScale - low ELSE raw

\* step size times x, for x a number of 1 / ProbScale, in rating units
StepTimes(x) == (K_FACTOR * EloUnit * x) \div ProbScale

\* the ratings after the games ids were resolved one after the other with
\* the outcomes of the results map, from the ratings elo
RECURSIVE RatingsAfter(_, _)
RatingsAfter(ids, elo) ==
    IF ids = <<>> THEN elo
    ELSE LET g == GameOf(Head(ids))
             h == elo[g.homeTeamId]
             a == elo[g.awayTeamId]
             w == gameResults[g.id]
             move == IF w = TIE THEN StepTimes(ProbScale \div 2 - ModelProb(h, a, TRUE))
                     ELSE IF w = g.homeTeamId
                     THEN StepTimes(ProbScale - ModelProb(h, a, TRUE))
                     ELSE -StepTimes(ProbScale - ModelProb(a, h, FALSE))
         IN  RatingsAfter(Tail(ids),
                          [t \in DOMAIN elo |->
                              IF t = g.homeTeamId THEN h + move
                              ELSE IF t = g.awayTeamId THEN a - move
                              ELSE elo[t]])

\* the seed ratings of the teams of the standings
SeedRatings == [t \in {initialTeams[k].id : k \in 1..Len(initialTeams)} |-> kalshiEloMap[t]]

\* all games resolved in this trial before the last one
EarlierGames == SubSeq(resolvedGames, 1, Len(resolvedGames) - 1)

(* C21: after a decisive game of a trial, drawn or forced, the winner's    *)
(* rating has gone up and the loser's down by the same positive amount,    *)
(* the step size times one minus the winner's win probability by the       *)
(* rating model with the home-field offset, so that their sum is           *)
(* unchanged; every game of the trial reads the ratings its teams' earlier *)
(* games of the trial left, and a team whose rating went up has a higher   *)
(* win probability by the rating model in its next game.                   *)
C21_DecisiveUpdate ==
    (InTrial /\ resolvedGames # <<>>)
    => LET g == GameOf(lastGame.id)
           h == lastGame.homeElo
           a == lastGame.awayElo
           d == IF lastGame.homeWins THEN StepTimes(ProbScale - ModelProb(h, a, TRUE))
                ELSE StepTimes(ProbScale - ModelProb(a, h, FALSE))
           before == RatingsAfter(EarlierGames, SeedRatings)
       IN  /\ (~lastGame.isTie)
              => /\ d > 0
                 /\ simElo[g.homeTeamId] = (IF lastGame.homeWins THEN h + d ELSE h - d)
                 /\ simElo[g.awayTeamId] = (IF lastGame.homeWins THEN a - d ELSE a + d)
                 /\ simElo[g.homeTeamId] + simElo[g.awayTeamId] = h + a
           /\ h = before[g.homeTeamId]
           /\ a = before[g.awayTeamId]
           /\ simElo = RatingsAfter(resolvedGames, SeedRatings)
           /\ (lastGame.drew /\ g.id \notin DOMAIN oddsMap)
              => lastGame.winProb = ModelProb(h, a, TRUE)
           /\ h > SeedRatings[g.homeTeamId]
              => ModelProb(h, a, TRUE) > ModelProb(SeedRatings[g.homeTeamId], a, TRUE)
           /\ a > SeedRatings[g.awayTeamId]
              => ModelProb(a, h, FALSE) > ModelProb(SeedRatings[g.awayTeamId], h, FALSE)

\* the visitor of week 1 was forced to win; in week 2 it visits a team of
\* the same seed rating, whose win probability is lower than it was
C21_Witness ==
    /\ simPc = "games"
    /\ resolvedGames = <<"g1", "g2">>
    /\ Forced("g1") = "CHI"
    /\ GameOf("g1").awayTeamId = "CHI"
    /\ GameOf("g2").awayTeamId = "CHI"
    /\ lastGame.drew
    /\ oddsMap = <<>>
    /\ SeedRatings["CHI"] = SeedRatings["CLE"]
    /\ lastGame.awayElo > SeedRatings["CHI"]
    /\ lastGame.homeElo = SeedRatings["CLE"]
    /\ lastGame.winProb < ModelProb(SeedRatings["CLE"], SeedRatings["CHI"], TRUE)
    /\ ~lastGame.isTie
    /\ simElo["CHI"] + simElo["CLE"] = lastGame.homeElo + lastGame.awayElo

----------------------------------------------------------------------------
\* the last game resolved in the current trial ended in a tie
TieJustPlayed == InTrial /\ resolvedGames # <<>> /\ lastGame.isTie

\* the home team's lead in rating after the last game
GapAfter ==
    simElo[GameOf(lastGame.id).homeTeamId] - simElo[GameOf(lastGame.id).awayTeamId]

\* the home team's lead in rating before the last game
GapBefore == lastGame.homeElo - lastGame.awayElo

\* the home-field offset in rating units
Offset == HOME_FIELD_ADVANTAGE * EloUnit

(* C22 as stated: after a tie the two changes are equal and opposite and   *)
(* the absolute gap between the two ratings is not larger than before.     *)
C22_TieGapShrinks ==
    TieJustPlayed
    => /\ simElo[GameOf(lastGame.id).homeTeamId] - lastGame.homeElo
            = lastGame.awayElo - simElo[GameOf(lastGame.id).awayTeamId]
       /\ Abs(GapAfter) <= Abs(GapBefore)

(* C22: after a tie, drawn or forced, the two changes are equal and        *)
(* opposite: the home team gains the step size times (one half minus its   *)
(* win probability by the rating model with the home-field offset).  The   *)
(* home team's lead counted with the home-field offset keeps its sign and  *)
(* does not grow in absolute value; the lead without the offset may grow.  *)
C22_TieUpdate ==
    TieJustPlayed
    => LET c == simElo[GameOf(lastGame.id).homeTeamId] - lastGame.homeElo
           expected == ModelProb(lastGame.homeElo, lastGame.awayElo, TRUE)
       IN  /\ lastGame.awayElo - simElo[GameOf(lastGame.id).awayTeamId] = c
           /\ c = StepTimes(ProbScale \div 2 - expected)
           /\ Abs(GapAfter + Offset) <= Abs(GapBefore + Offset)
           /\ GapBefore + Offset >= 0 => (c <= 0 /\ GapAfter + Offset >= 0)
           /\ GapBefore + Offset <= 0 => (c >= 0 /\ GapAfter + Offset <= 0)

\* a drawn tie between two teams of the same rating: the home team goes
\* down, the visitor up, and their gap opens
C22_Witness ==
    /\ TieJustPlayed
    /\ lastGame.drew
    /\ GapBefore = 0
    /\ GapAfter < 0
    /\ simElo[GameOf(lastGame.id).homeTeamId] + simElo[GameOf(lastGame.id).awayTeamId]
         = lastGame.homeElo + lastGame.awayElo

----------------------------------------------------------------------------
(* findTiebreakerWinner with many candidates: a league in which team k has  *)
(* beaten every team after it, except that teams 1 and 2 never met.  All    *)
(* records are equal, so each pass removes only the last team (it was swept *)
(* by the others) and the loop restarts once per team.                      *)

ChainTeams == 53

ChainName(k) == "T" \o ToString(k)

ChainGames(n) ==
    LET pairs == SelectSeq([k \in 1..(n * n) |-> <<((k - 1) \div n) + 1, ((k - 1) % n) + 1>>],
                           LAMBDA p : p[1] < p[2] /\ p # <<1, 2>>)
    IN  [k \in 1..Len(pairs) |->
            [id |-> "c" \o ToString(pairs[k][1]) \o "v" \o ToString(pairs[k][2]),
             homeTeamId |-> ChainName(pairs[k][1]),
             awayTeamId |-> ChainName(pairs[k][2])]]

InputsChain ==
    \E n \in {ChainTeams} :
        LET with(gs) ==
                /\ teams = [k \in 1..n |-> ChainName(k)]
                /\ type = "division"
                /\ division = [t \in {ChainName(k) : k \in 1..n} |-> "East"]
                /\ statsMap = [t \in {ChainName(k) : k \in 1..n} |-> BaseStats]
                /\ allGames = gs
                /\ gameResults = [id \in {gs[k].id : k \in 1..Len(gs)} |->
                                    gs[CHOOSE k \in 1..Len(gs) : gs[k].id = id].homeTeamId]
        IN  with(ChainGames(n))

CapInit ==
    /\ KalshiIdle
    /\ WorkerIdle
    /\ SimIdle
    /\ \/ InputsChain
       \/ InputsStats
       \/ InputsOverall
    /\ pc = "start"
    /\ byWinPct = <<>>
    /\ i = 1
    /\ j = 1
    /\ result = <<>>
    /\ remaining = <<>>
    /\ ranked = <<>>
    /\ stack = <<>>
    /\ lastStep = NoStep
    /\ touched = {}
    /\ extractions = 0
    /\ draws = <<>>

CapSpec == CapInit /\ [][Next]_vars

\* the candidates the running findTiebreakerWinner was called with
FrameCandidates ==
    IF Len(stack) = 1 THEN remaining ELSE stack[Len(stack) - 1].groups[1]

\* the while loop has ended although a step was still to be tried
CapEnded ==
    /\ pc = "find"
    /\ top.phase = "steps"
    /\ ~LoopRuns(top)
    /\ top.stepIdx < Len(buildTiebreakerSteps(top.type))

----------------------------------------------------------------------------
(* Division order and wildcard order.  wcPool lists the non-winners of     *)
(* each division in the order of that division's ranking, so the position  *)
(* in wcPool of two teams of one division is their division order.         *)

PositionIn(s, t) == CHOOSE k \in 1..Len(s) : s[k] = t

\* the wildcard ranking of the pool keeps the division order of every two
\* teams of one division
KeepsDivisionOrder(pool) ==
    \A a, b \in 1..Len(pool.wcPool) :
        (a < b /\ division[pool.wcPool[a]] = division[pool.wcPool[b]])
            => PositionIn(pool.seededWildcards, pool.wcPool[a])
                   < PositionIn(pool.seededWildcards, pool.wcPool[b])

\* C25: in the trial completed last, any two teams of one division that are
\* both in the wildcard pool of their conference are ranked by the wildcard
\* ranking in the order the division ranking gave them.
C25_WildcardKeepsDivisionOrder ==
    (sim > 0 /\ simPc \in {"loop", "done"})
        => \A c \in 1..2 : KeepsDivisionOrder(lastSeeding.pools[c])

\* when no coin was tossed in the trial completed last, the wildcard ranking
\* keeps the division order
DivisionOrderKeptWithoutToss ==
    (sim > 0 /\ simPc \in {"loop", "done"} /\ lastSeeding.tosses = 0)
        => \A c \in 1..2 : KeepsDivisionOrder(lastSeeding.pools[c])

\* a trial without a toss in which two teams of one division are in the pool
DivisionMatesInPoolWithoutToss ==
    /\ sim > 0
    /\ simPc = "loop"
    /\ lastSeeding.tosses = 0
    /\ \E a, b \in 1..Len(lastSeeding.pools[1].wcPool) :
           /\ a < b
           /\ division[lastSeeding.pools[1].wcPool[a]] = division[lastSeeding.pools[1].wcPool[b]]

----------------------------------------------------------------------------
(* The result counters                                                     *)

\* the teams of a conference that are in one of the four divisions
InDivisions(conf) ==
    {t \in Range(conferenceTeams(conf)) : teamById(t).division \in Range(divisions)}

\* what the trial that has just been counted added to a counter, over the
\* teams of a conference
AddedTo(before, after, conf) ==
    SumOver(Range(conferenceTeams(conf)), after)
        - SumOver(Range(conferenceTeams(conf)), before)

CountersConsistent ==
    \A t \in DOMAIN madePlayoffs :
        /\ madePlayoffs[t] = wonDivision[t] + madeWildcard[t]
        /\ madePlayoffs[t] <= sim
        /\ wonDivision[t] <= sim
        /\ madeWildcard[t] <= sim
        /\ wonFirstSeed[t] <= wonDivision[t]

\* C27: after any number of trials, for every team madePlayoffs =
\* wonDivision + madeWildcard, each counter is at most the number of trials
\* run and wonFirstSeed is at most wonDivision; the trial that is counted
\* adds, for each conference with a team in a division, exactly one to the
\* top-seed counters and at most three to the wildcard counters.
C27_Counters ==
    [][/\ CountersConsistent'
       /\ (sim' = sim + 1)
            => \A conf \in {"AFC", "NFC"} :
                 /\ InDivisions(conf) # {}
                      => AddedTo(wonFirstSeed, wonFirstSeed', conf) = 1
                 /\ AddedTo(wonFirstSeed, wonFirstSeed', conf) <= 1
                 /\ AddedTo(madeWildcard, madeWildcard', conf) <= 3]_vars

\* MaxSims trials have been counted, in the last a conference had more than
\* three teams that won no division, and both conferences had a top seed
C27_Witness ==
    /\ simPc = "done"
    /\ sim = MaxSims
    /\ sim > 1
    /\ Len(lastSeeding.pools[1].wcPool) > 3
    /\ Len(lastSeeding.afc.wildcards) = 3
    /\ SumOver(Range(afcTeams), madeWildcard) = 3 * sim
    /\ SumOver(Range(afcTeams), wonFirstSeed) = sim
    /\ SumOver(Range(nfcTeams), wonFirstSeed) = sim
    /\ \E t \in DOMAIN madePlayoffs : madeWildcard[t] = sim /\ wonDivision[t] = 0
    /\ \E t \in DOMAIN madePlayoffs : madePlayoffs[t] = 0

----------------------------------------------------------------------------
(* The order of the input list                                             *)

\* the lists that hold the teams of s in some order
Orderings(s) ==
    {p \in [1..Len(s) -> Range(s)] : \A a, b \in 1..Len(s) : p[a] = p[b] => a = b}

\* the value Math.random would give to a first coin toss
OneToss == <<0>>

\* C26: when sortTeams has ranked the list without a coin toss, it ranks
\* every other ordering of the same teams without a coin toss too, and the
\* ranking is the same, for both types.
C26_OrderIndependent ==
    (pc = "done" /\ draws = <<>>)
        => \A p \in Orderings(teams) :
               LET same(r) == r.teams = result /\ r.rnds = OneToss
               IN  same(sortTeams(p, type, OneToss))

\* three teams in two divisions were tied and the criteria have ranked them
C26_Witness ==
    /\ pc = "done"
    /\ draws = <<>>
    /\ Len(teams) = 3
    /\ extractions > 1
    /\ result # teams
    /\ \E t \in Range(teams) : division[t] # division[teams[1]]

----------------------------------------------------------------------------
(* kalshiGet and the SimpleRateLimiter it shares (services/kalshiHttp.ts). *)
(* Times are in milliseconds.  A promise callback runs in one step; a      *)
(* timer set by sleep fires at some later step, not before its delay.      *)

\* the most calls of kalshiGet made
MaxCalls == 3

\* the clock is advanced this many times
MaxTicks == 3

\* const kalshiLimiter = new SimpleRateLimiter(2, 200)
maxConcurrent == 2

minTimeMs == 200

\* options?.retries ?? 5
DEFAULT_RETRIES == 5

\* Math.min(10_000, 500 * Math.pow(2, attempt))
BACKOFF_CAP_MS == 10000

BACKOFF_BASE_MS == 500

\* Math.max(retryAfterMs, 250)
RETRY_AFTER_MIN_MS == 250

\* undefined
Undefined == -1

\* Date.now() when the first call is made: lastStart = 0 lies further back
\* than minTimeMs
Epoch == minTimeMs

\* the clock advances in steps of this size
TickMs == minTimeMs \div 2

Max(a, b) == IF a > b THEN a ELSE b

Min(a, b) == IF a < b THEN a ELSE b

RECURSIVE Pow2(_)
Pow2(n) == IF n = 0 THEN 1 ELSE 2 * Pow2(n - 1)

\* what axios.get ends with: a response, or an error with the status of its
\* response (0: no response), its code and its retry-after header in
\* seconds (Undefined: no header)
Reply(status, code, retryAfter) ==
    [status |-> status, code |-> code, retryAfter |-> retryAfter]

NoReply == Reply(0, "", Undefined)

Outcomes ==
    {Reply(200, "", Undefined),
     Reply(429, "ERR_BAD_REQUEST", Undefined),
     Reply(429, "ERR_BAD_REQUEST", 0),
     Reply(429, "ERR_BAD_REQUEST", 1),
     Reply(502, "ERR_BAD_RESPONSE", Undefined),
     Reply(503, "ERR_BAD_RESPONSE", Undefined),
     Reply(504, "ERR_BAD_RESPONSE", Undefined),
     Reply(0, "ECONNABORTED", Undefined),
     Reply(404, "ERR_BAD_REQUEST", Undefined),
     Reply(500, "ERR_BAD_RESPONSE", Undefined),
     Reply(0, "ERR_NETWORK", Undefined)}

\* axios resolves on a 2xx status and rejects otherwise
IsSuccess(reply) == reply.status = 200

\* the values (Math.random() * 2 - 1) * 10 the jitter is run on
JitterRands == {-10, 9}

\* jitter: Math.max(0, Math.floor(ms + (Math.random() * 2 - 1) * ms * 0.2))
jitter(ms, r) == Max(0, (50 * ms + r * ms) \div 50)

\* parseRetryAfterMs of a header holding a number of seconds
parseRetryAfterMs(value) ==
    IF value = Undefined THEN Undefined ELSE Max(0, value * 1000)

\* mutant: every error is retried
isRetryable_Always(err) == TRUE

\* status === 429 || 502 || 503 || 504 || err?.code === 'ECONNABORTED'
isRetryable(err) ==
    err.status \in {429, 502, 503, 504} \/ err.code = "ECONNABORTED"

\* const waitMs = retryAfterMs !== undefined ? Math.max(retryAfterMs, 250) : backoffMs
waitMsOf(err, attempt, r) ==
    IF parseRetryAfterMs(err.retryAfter) # Undefined
    THEN Max(parseRetryAfterMs(err.retryAfter), RETRY_AFTER_MIN_MS)
    ELSE jitter(Min(BACKOFF_CAP_MS, BACKOFF_BASE_MS * Pow2(attempt)), r)

\* a call kalshiGet(url, config, options) that has just been made
NewCall(retriesOption) ==
    [retries  |-> IF retriesOption = Undefined THEN DEFAULT_RETRIES ELSE retriesOption,
     phase    |-> "queued",
     wakeAt   |-> 0,
     attempt  |-> 0,
     requests |-> 0,
     waitMs   |-> 0,
     err      |-> NoReply,
     reply    |-> NoReply]

\* the limiter and the calls, as one value
Limiter == [queue |-> queue, active |-> active, lastStart |-> lastStart, calls |-> calls]

\* run, after its sleep: this.active++; this.lastStart = Date.now(); fn()
\* runs up to its first axios.get
startJob(id, L) ==
    [L EXCEPT !.active = @ + 1,
              !.lastStart = now,
              !.calls[id].phase = "request",
              !.calls[id].requests = @ + 1]

\* run, up to its first await
run(id, L) ==
    IF Max(0, minTimeMs - (now - L.lastStart)) > 0
    THEN [L EXCEPT !.calls[id].phase = "sleeping",
                   !.calls[id].wakeAt = now + Max(0, minTimeMs - (now - L.lastStart))]
    ELSE startJob(id, L)

\* pump
RECURSIVE pump(_)
pump(L) ==
    IF L.active < maxConcurrent /\ Len(L.queue) > 0
    THEN pump(run(Head(L.queue), [L EXCEPT !.queue = Tail(@)]))
    ELSE L

\* the limiter and the calls become L
Becomes(L) ==
    /\ queue' = L.queue
    /\ active' = L.active
    /\ lastStart' = L.lastStart
    /\ calls' = L.calls

\* the retries options asked for: the default, none and one by the first
\* call, none by the calls after it; a call with the default is the only one
RetryOptions(id) ==
    IF id = 1 THEN {Undefined, 0, 1}
    ELSE IF calls[1].retries = DEFAULT_RETRIES THEN {}
    ELSE {0}

\* the first call is answered in every way, the calls after it with a
\* success or a 503
OutcomesOf(id) ==
    IF id = 1 THEN Outcomes
    ELSE {out \in Outcomes : out.status \in {200, 503}}

\* kalshiGet is called: schedule pushes the job and pumps
KalshiGet ==
    /\ Len(calls) < MaxCalls
    /\ \E opt \in RetryOptions(Len(calls) + 1) :
          Becomes(pump([Limiter EXCEPT !.queue = Append(@, Len(calls) + 1),
                                       !.calls = Append(@, NewCall(opt))]))
    /\ UNCHANGED <<now, workerVars, simVars, sortVars, inputs>>

\* the timer of "await sleep(wait)" in run fires
WakeUp ==
    /\ \E id \in 1..Len(calls) :
          /\ calls[id].phase = "sleeping"
          /\ now >= calls[id].wakeAt
          /\ Becomes(startJob(id, Limiter))
    /\ UNCHANGED <<now, workerVars, simVars, sortVars, inputs>>

\* the finally block of run, after fn has settled with reply
settle(id, phase, reply) ==
    pump([Limiter EXCEPT !.active = @ - 1,
                         !.calls[id].phase = phase,
                         !.calls[id].reply = reply])

\* axios.get settles, and fn runs up to its next await or to its end
Respond ==
    /\ \E id \in 1..Len(calls), out \in Outcomes, r \in JitterRands :
          /\ calls[id].phase = "request"
          /\ out \in OutcomesOf(id)
          /\ IF IsSuccess(out)
             THEN Becomes(settle(id, "resolved", out))
             ELSE IF ~isRetryable(out) \/ calls[id].attempt >= calls[id].retries
             THEN Becomes(settle(id, "rejected", out))
             ELSE /\ calls' = [calls EXCEPT
                                 ![id].phase = "backoff",
                                 ![id].err = out,
                                 ![id].waitMs = waitMsOf(out, calls[id].attempt, r),
                                 ![id].attempt = @ + 1]
                  /\ UNCHANGED <<queue, active, lastStart>>
    /\ UNCHANGED <<now, workerVars, simVars, sortVars, inputs>>

\* the timer of "await sleep(waitMs)" in fn fires: the next axios.get
Retry ==
    /\ \E id \in 1..Len(calls) :
          /\ calls[id].phase = "backoff"
          /\ calls' = [calls EXCEPT ![id].phase = "request", ![id].requests = @ + 1]
    /\ UNCHANGED <<queue, active, lastStart, now, workerVars, simVars, sortVars, inputs>>

\* time passes
Tick ==
    /\ \/ now < Epoch + MaxTicks * TickMs
       \/ \E id \in 1..Len(calls) : calls[id].phase = "sleeping" /\ calls[id].wakeAt > now
    /\ now' = now + TickMs
    /\ UNCHANGED <<queue, active, lastStart, calls, workerVars, simVars, sortVars, inputs>>

KalshiNext ==
    \/ KalshiGet
    \/ WakeUp
    \/ Respond
    \/ Retry
    \/ Tick

KalshiInit ==
    /\ SimIdle
    /\ SortIdle
    /\ WorkerIdle
    /\ division = <<>>
    /\ statsMap = <<>>
    /\ allGames = <<>>
    /\ gameResults = <<>>
    /\ queue = <<>>
    /\ active = 0
    /\ lastStart = 0
    /\ now = Epoch
    /\ calls = <<>>

KalshiSpec == KalshiInit /\ [][KalshiNext]_vars

\* the functions handed to schedule that have been called and not settled
Running == {id \in 1..Len(calls) : calls[id].phase \in {"request", "backoff"}}

\* C28: the limiter never has more than maxConcurrent scheduled functions
\* running at the same time, whenever the calls of schedule arrive.
C28_AtMostMaxConcurrent == Cardinality(Running) <= maxConcurrent

\* the errors the retry is meant for
RetryableError(err) ==
    \/ err.status = 429
    \/ err.status = 502
    \/ err.status = 503
    \/ err.status = 504
    \/ err.code = "ECONNABORTED"

\* C30: a call of kalshiGet issues at most retries + 1 requests (6 by
\* default).  It waits for a retry only after a 429, 502, 503 or 504 response
\* or an ECONNABORTED error, and the wait is not zero; every request but the
\* first follows such a wait.  It resolves with the first successful
\* response, and rejects with the error of its last request, which is not
\* retryable or has used up the retries.
C30_RetryPolicy ==
    \A id \in 1..Len(calls) :
        /\ calls[id].requests <= calls[id].retries + 1
        /\ calls[id].retries = DEFAULT_RETRIES => calls[id].requests <= 6
        /\ calls[id].phase \in {"queued", "sleeping"} => calls[id].requests = 0
        /\ calls[id].phase = "backoff"
             => /\ RetryableError(calls[id].err)
                /\ calls[id].waitMs > 0
                /\ calls[id].requests = calls[id].attempt
        /\ calls[id].phase \in {"request", "resolved", "rejected"}
             => calls[id].requests = calls[id].attempt + 1
        /\ calls[id].phase = "resolved" => IsSuccess(calls[id].reply)
        /\ calls[id].phase = "rejected"
             => /\ ~IsSuccess(calls[id].reply)
                /\ \/ ~RetryableError(calls[id].reply)
                   \/ calls[id].attempt = calls[id].retries

\* a call with the default number of retries has made six requests and is
\* rejected with the retryable error of the sixth
C30_Witness ==
    \E id \in 1..Len(calls) :
        /\ calls[id].retries = DEFAULT_RETRIES
        /\ calls[id].phase = "rejected"
        /\ calls[id].requests = DEFAULT_RETRIES + 1
        /\ RetryableError(calls[id].reply)

----------------------------------------------------------------------------
(* The simulation worker (simulation/worker.ts).  self.onmessage runs to   *)
(* its end before the next message is delivered; its calls of              *)
(* runSimulation are the actions of runSimulation above.                   *)

\* the most messages delivered to the worker
MaxMessages == 2

\* const subSims = 1000: the trials of one calibration round, scaled down
SubSims == 1

\* const iterations = 5
CALIBRATION_ITERATIONS == 5

\* const learningRate = 300
LEARNING_RATE == 300

\* const threshold = 0.05, as 1 / threshold
THRESHOLD_INV == 20

\* Math.max(-50, Math.min(50, adjustment))
MAX_ADJUSTMENT == 50

\* eloMap.get(res.teamId) || 1500
FALLBACK_ELO == 1500

\* the league of the messages: three teams of one division, one game left
WorkerTeams ==
    <<Tm("CHI", "NFC", "North", RecNone, RecNone, RecNone),
      Tm("GB", "NFC", "North", RecNone, RecNone, RecNone),
      Tm("CLE", "NFC", "North", RecNone, RecNone, RecNone)>>

WorkerGames ==
    <<Gm("g1", 1, "GB", "CHI", FALSE, "")>>

\* kalshiElos of a message: a rating for every team, or for every team but one
AllRated == [t \in {"CHI", "GB", "CLE"} |-> Elo(1500)]

OneUnrated == [t \in {"CHI", "GB"} |-> Elo(1500)]

\* targetPlayoffOdds of a message, times ProbScale, by team: what the
\* simulation gives, a target out of reach, a target within the threshold
WorkerTargets ==
    {[t \in {"CHI", "GB", "CLE"} |-> ProbScale],
     [CHI |-> ProbScale \div 2],
     [CHI |-> (97 * ProbScale) \div 100, GB |-> ProbScale]}

\* e.data: a request to simulate with and without ratings, a request to
\* calibrate towards each of the targets, and one with a rating missing
Messages ==
    {[action |-> "SIMULATE", count |-> 1, hasElos |-> TRUE, kalshiElos |-> AllRated,
      targetPlayoffOdds |-> <<>>],
     [action |-> "SIMULATE", count |-> 1, hasElos |-> FALSE, kalshiElos |-> <<>>,
      targetPlayoffOdds |-> <<>>],
     [action |-> "CALIBRATE", count |-> 1000, hasElos |-> TRUE, kalshiElos |-> OneUnrated,
      targetPlayoffOdds |-> [CHI |-> ProbScale \div 2]]}
    \cup
    {[action |-> "CALIBRATE", count |-> 1000, hasElos |-> TRUE, kalshiElos |-> AllRated,
      targetPlayoffOdds |-> tg] : tg \in WorkerTargets}

\* the call runSimulation(teams, games, n, oddsMap, eloMap, picksMap)
CallRunSimulation(n, eloMap) ==
    /\ initialTeams' = WorkerTeams
    /\ allGames' = WorkerGames
    /\ numSimulations' = n
    /\ oddsMap' = <<>>
    /\ kalshiEloMap' = eloMap
    /\ userPicks' = <<>>
    /\ division' = [t \in {WorkerTeams[k].id : k \in 1..Len(WorkerTeams)} |->
                       WorkerTeams[CHOOSE k \in 1..Len(WorkerTeams) : WorkerTeams[k].id = t].division]
    /\ statsMap' = <<>>
    /\ gameResults' = <<>>
    /\ simPc' = "call"
    /\ sim' = 0
    /\ simElo' = <<>>
    /\ simWinsAgainst' = <<>>
    /\ giPos' = 1
    /\ madePlayoffs' = <<>>
    /\ wonDivision' = <<>>
    /\ madeWildcard' = <<>>
    /\ wonFirstSeed' = <<>>
    /\ gameHomeWins' = <<>>
    /\ returned' = NotReturned
    /\ randomCalls' = 0
    /\ resolvedGames' = <<>>
    /\ lastGame' = NoGame
    /\ lastSeeding' = NoSeeding

\* onmessage returns: its locals are gone
HandlerReturns ==
    /\ workerPc' = "idle"
    /\ round' = 0
    /\ initialTeams' = <<>>
    /\ allGames' = <<>>
    /\ numSimulations' = 0
    /\ oddsMap' = <<>>
    /\ kalshiEloMap' = <<>>
    /\ userPicks' = <<>>
    /\ division' = <<>>
    /\ statsMap' = <<>>
    /\ gameResults' = <<>>
    /\ simPc' = "idle"
    /\ sim' = 0
    /\ simElo' = <<>>
    /\ simWinsAgainst' = <<>>
    /\ giPos' = 1
    /\ madePlayoffs' = <<>>
    /\ wonDivision' = <<>>
    /\ madeWildcard' = <<>>
    /\ wonFirstSeed' = <<>>
    /\ gameHomeWins' = <<>>
    /\ returned' = NotReturned
    /\ randomCalls' = 0
    /\ resolvedGames' = <<>>
    /\ lastGame' = NoGame
    /\ lastSeeding' = NoSeeding

\* self.onmessage up to its first call of runSimulation
Receive ==
    /\ workerPc = "idle"
    /\ ~terminated
    /\ received < MaxMessages
    /\ \E msg \in Messages :
          /\ message' = msg
          /\ CallRunSimulation(IF msg.action = "CALIBRATE" THEN SubSims ELSE msg.count,
                               IF msg.hasElos THEN msg.kalshiElos ELSE <<>>)
    /\ workerPc' = "running"
    /\ round' = 0
    /\ received' = received + 1
    /\ UNCHANGED <<kalshiVars, sortVars, posted, terminated>>

\* mutant: runSimulation goes on in a worker that has been terminated
WorkerRun_Detached ==
    /\ workerPc = "running"
    /\ SimNext

\* runSimulation runs in the worker
WorkerRun ==
    /\ workerPc = "running"
    /\ ~terminated
    /\ SimNext

\* mutant: the error is swallowed
PostError_Silent ==
    /\ workerPc = "running"
    /\ ~terminated
    /\ simPc = "done"
    /\ returned.kind = "threw"
    /\ HandlerReturns
    /\ UNCHANGED <<kalshiVars, sortVars, message, received, posted, terminated>>

\* catch (error): self.postMessage({ type: 'ERROR', ... })
PostError ==
    /\ workerPc = "running"
    /\ ~terminated
    /\ simPc = "done"
    /\ returned.kind = "threw"
    /\ posted' = Append(posted, [type |-> "ERROR"])
    /\ HandlerReturns
    /\ UNCHANGED <<kalshiVars, sortVars, message, received, terminated>>

\* self.postMessage({ type: 'SUCCESS', results, simulatedOdds })
PostSuccess ==
    /\ workerPc = "running"
    /\ ~terminated
    /\ simPc = "done"
    /\ returned.kind = "returned"
    /\ message.action # "CALIBRATE"
    /\ posted' = Append(posted, [type |-> "SUCCESS", results |-> returned.teamResults,
                                 simulatedOdds |-> returned.simulatedOdds])
    /\ HandlerReturns
    /\ UNCHANGED <<kalshiVars, sortVars, message, received, terminated>>

\* targetMap.get(res.teamName) ?? targetMap.get(res.teamId); the teams of
\* the messages are named by their ids
targetOf(res) ==
    IF res.teamId \in DOMAIN message.targetPlayoffOdds
    THEN message.targetPlayoffOdds[res.teamId]
    ELSE Undefined

\* (target - res.playoffProb) * ProbScale * totalSimulations
diffOf(res) == targetOf(res) * res.totalSimulations - res.madePlayoffs * ProbScale

\* the team of res is adjusted: it has a target, and Math.abs(diff) is not
\* below the threshold
isAdjusted(res) ==
    /\ targetOf(res) # Undefined
    /\ ~(Abs(diffOf(res)) * THRESHOLD_INV < ProbScale * res.totalSimulations)

\* Math.max(-50, Math.min(50, diff * learningRate)), as a rating
adjustmentOf(res) ==
    Max(-(MAX_ADJUSTMENT * EloUnit),
        Min(MAX_ADJUSTMENT * EloUnit,
            (diffOf(res) * LEARNING_RATE * EloUnit) \div (ProbScale * res.totalSimulations)))

\* eloMap.get(res.teamId) || 1500
currentEloOf(eloMap, res) ==
    IF res.teamId \in DOMAIN eloMap /\ eloMap[res.teamId] # 0
    THEN eloMap[res.teamId]
    ELSE Elo(FALLBACK_ELO)

\* "for (const res of teamResults)" of the calibration loop: the eloMap after it
adjusted(eloMap, results) ==
    [t \in DOMAIN eloMap \cup {results[k].teamId : k \in {q \in 1..Len(results) : isAdjusted(results[q])}} |->
        IF \E k \in 1..Len(results) : results[k].teamId = t /\ isAdjusted(results[k])
        THEN LET res == results[CHOOSE k \in 1..Len(results) : results[k].teamId = t]
             IN  currentEloOf(eloMap, res) + adjustmentOf(res)
        ELSE eloMap[t]]

\* if (maxDiff < threshold) break
closeEnough(results) == \A k \in 1..Len(results) : ~isAdjusted(results[k])

\* the calibration loop goes on: the ratings are adjusted and the next short
\* simulation is called
NextRound ==
    /\ workerPc = "running"
    /\ ~terminated
    /\ simPc = "done"
    /\ returned.kind = "returned"
    /\ message.action = "CALIBRATE"
    /\ ~closeEnough(returned.teamResults)
    /\ round + 1 < CALIBRATION_ITERATIONS
    /\ round' = round + 1
    /\ CallRunSimulation(SubSims, adjusted(kalshiEloMap, returned.teamResults))
    /\ UNCHANGED <<kalshiVars, sortVars, workerPc, message, received, posted, terminated>>

\* the calibration loop ends:
\* self.postMessage({ type: 'CALIBRATION_COMPLETE', calibratedElos });
\* rounds is history: the short simulations this request has run
CalibrationComplete ==
    /\ workerPc = "running"
    /\ ~terminated
    /\ simPc = "done"
    /\ returned.kind = "returned"
    /\ message.action = "CALIBRATE"
    /\ closeEnough(returned.teamResults) \/ ~(round + 1 < CALIBRATION_ITERATIONS)
    /\ posted' = Append(posted, [type |-> "CALIBRATION_COMPLETE",
                                 calibratedElos |-> adjusted(kalshiEloMap, returned.teamResults),
                                 rounds |-> round + 1])
    /\ HandlerReturns
    /\ UNCHANGED <<kalshiVars, sortVars, message, received, terminated>>

WorkerNext ==
    \/ Receive
    \/ WorkerRun
    \/ PostError
    \/ PostSuccess
    \/ NextRound
    \/ CalibrationComplete

WorkerInit ==
    /\ KalshiIdle
    /\ WorkerIdle
    /\ SortIdle
    /\ SimIdle
    /\ division = <<>>
    /\ statsMap = <<>>
    /\ allGames = <<>>
    /\ gameResults = <<>>

\* the steps of onmessage after runSimulation has returned or thrown
WorkerReplies ==
    \/ PostError
    \/ PostSuccess
    \/ NextRound
    \/ CalibrationComplete

\* the worker is within runSimulation: a step of runSimulation can be
\* taken, and no other step can
InRunSimulation == workerPc = "running" /\ ~terminated /\ simPc # "done"

\* The worker alone.  onmessage is synchronous code: a step that can be
\* taken is taken.  For the steps of runSimulation this weak fairness is
\* written out: they are enabled in the states InRunSimulation, and every
\* step from such a state is one of them.
WorkerSpec ==
    /\ WorkerInit
    /\ [][WorkerNext]_vars
    /\ WF_vars(WorkerReplies)
    /\ (<>[]InRunSimulation => []<><<InRunSimulation>>_vars)

\* the message posted by the step, when the step posts one
NewReply == posted'[Len(posted')]

\* C29: the worker posts exactly one message for every message it receives:
\* none before the request is handled, one when it has been, and every
\* request is answered.  The reply is ERROR exactly when runSimulation threw,
\* SUCCESS with the results for a request to simulate, and
\* CALIBRATION_COMPLETE with the ratings for a request to calibrate, after
\* at most CALIBRATION_ITERATIONS short simulations.
C29_OneReply ==
    /\ [](/\ workerPc = "idle" => Len(posted) = received
          /\ workerPc = "running" => Len(posted) = received - 1)
    /\ [][/\ Len(posted') <= Len(posted) + 1
          /\ Len(posted') = Len(posted) + 1
               => /\ workerPc = "running" /\ workerPc' = "idle"
                  /\ NewReply.type = "ERROR" <=> returned.kind = "threw"
                  /\ NewReply.type = "SUCCESS"
                       <=> (returned.kind = "returned" /\ message.action = "SIMULATE")
                  /\ NewReply.type = "CALIBRATION_COMPLETE"
                       <=> (returned.kind = "returned" /\ message.action = "CALIBRATE")
                  /\ NewReply.type = "SUCCESS"
                       => /\ NewReply.results = returned.teamResults
                          /\ NewReply.simulatedOdds = returned.simulatedOdds
                  /\ NewReply.type = "CALIBRATION_COMPLETE"
                       => /\ NewReply.rounds = round + 1
                          /\ NewReply.rounds <= CALIBRATION_ITERATIONS
                          /\ DOMAIN NewReply.calibratedElos = DOMAIN kalshiEloMap]_vars
    /\ \A k \in 1..MaxMessages : (received = k) ~> (Len(posted) = k)

\* two requests have been answered: the first with an error, the second
\* after the last calibration round
C29_Witness ==
    /\ workerPc = "idle"
    /\ received = 2
    /\ Len(posted) = 2
    /\ posted[1].type = "ERROR"
    /\ posted[2].type = "CALIBRATION_COMPLETE"
    /\ posted[2].rounds = CALIBRATION_ITERATIONS
    /\ posted[2].calibratedElos["CHI"] = Elo(1500) - CALIBRATION_ITERATIONS * MAX_ADJUSTMENT * EloUnit

----------------------------------------------------------------------------
(* The App that owns the worker (App.tsx).  runSimulation takes no          *)
(* cancellation flag and reads none; the App gives up a simulation by     *)
(* terminating the worker in the cleanup of its effect.                    *)

\* workerRef.current?.terminate()
Terminate ==
    /\ ~terminated
    /\ terminated' = TRUE
    /\ UNCHANGED <<kalshiVars, simVars, sortVars, inputs, workerPc, message, round,
                   received, posted>>

AppNext ==
    \/ Receive
    \/ WorkerRun
    \/ PostError
    \/ PostSuccess
    \/ NextRound
    \/ CalibrationComplete
    \/ Terminate

\* the worker and the App
AppSpec == WorkerInit /\ [][AppNext]_vars

====
